---- MODULE Spec2Model ----
(***************************************************************************)
(* A model of the PDF pipeline of the resume generator:                    *)
(*   - BrowserPool (src/utils/browser-pool.ts) together with its only      *)
(*     caller generatePDF, as a set of cooperatively scheduled async       *)
(*     tasks that interleave at their awaits;                              *)
(*   - the route handler installed on every issued page;                   *)
(*   - ensureDeterministicPDF (src/utils/deterministic-pdf.ts), computed   *)
(*     over sequences of characters.                                       *)
(***************************************************************************)
EXTENDS Naturals, Integers, Sequences, FiniteSets, TLC

(***************************************************************************)
(* Bounds of the model.                                                    *)
(***************************************************************************)
\* number of renderer processes that may ever be launched
MaxBrowsers == 2
\* number of browser contexts that may ever be created
MaxContexts == 2
\* number of parts (metadata fields, other content) an artifact is made of
MaxParts == 2
\* number of times ensureDeterministicPDF is run on an artifact
MaxPasses == 2
\* number of getTemplate calls
MaxCalls == 3
\* number of times the clock is seen to advance
MaxTicks == 3
\* number of generateHTML calls
MaxRenders == 2
\* the time, in milliseconds, up to which the file watcher is followed
MaxTime == 6
\* number of events the file watcher's listeners receive
MaxEvents == 3
\* number of applyUpdates calls
MaxUpdates == 2

\* concurrent generatePDF tasks
Callers == {"g1", "g2"}
\* invocations of shutdown(): the idle timer's callback and an explicit caller
\* (test teardown, SIGINT/SIGTERM handler)
Invokers == {"timer", "s1"}

BrowserIds == 1 .. MaxBrowsers
ContextIds == 1 .. MaxContexts

VARIABLES
  \* ---- BrowserPool fields
  browser,        \* this.browser: 0 (null) or the id of a Browser object
  context,        \* this.context: 0 (null) or the id of a BrowserContext object
  isShuttingDown, \* this.isShuttingDown
  idleTimer,      \* this.idleTimer: "null", "armed" (pending timeout) or "expired"
  \* ---- the renderer processes and contexts that exist outside the pool object
  procs,          \* id -> "unborn" | "launching" | "running" | "dead"
  ctxs,           \* id -> [browser, st]: st "unborn" | "creating" | "open" | "closed"
  \* ---- the async tasks
  call,           \* one generatePDF task per caller
  sd,             \* one shutdown() task per invoker
  settled,        \* the promise the last step settled, and how (NothingSettled if none)
  \* ---- the route handler of an issued page
  request,        \* the intercepted request, or NoRequest
  decision,       \* what the handler did with it
  \* ---- ensureDeterministicPDF
  pdfFile,        \* the artifact on disk
  pdfTwin,        \* a second artifact, equal to pdfFile outside its metadata values
  pdfConfig,      \* the DeterministicConfig in use
  pdfPasses,      \* how often ensureDeterministicPDF ran on the files
  pdfContent,     \* the bytes of pdfFile, as exported, that are not metadata
  pdfOptions,     \* the PDFOptions generatePDF was called with
  \* ---- generatePDF, one call from its start to its end
  gen,            \* where the call is, its page, the error caught, its outcome
  \* ---- TemplateCache and the clock
  cache,          \* this.cache: the entries of the Map, in insertion order
  now,            \* Date.now()
  got,            \* the last getTemplate call: its key, what it found and returned
  calls,          \* number of getTemplate calls so far
  ticks,          \* number of clock advances so far
  \* ---- the formatDate helper of the HTML template
  tz,             \* the host's timezone: minutes that local time is ahead of UTC
  dateString,     \* the argument of the last call
  formatted,      \* what the last call returned
  plain,          \* the last call of the plain-text formatDate: argument and result
  \* ---- generateHTML
  html,           \* what the last call returned
  htmlData,       \* the resume data of the last call
  htmlOptions,    \* the options of the last call
  \* ---- watchFile
  watcher,        \* the FSWatcher returned: whether it exists, its closed field, debounceMs
  debounceTimer,  \* the variable debounceTimer: null, or a timeout and when it is due
  inFlight,       \* number of onchange() promises not yet settled
  onErrorCalls,   \* number of calls of onError
  lastOutcome,    \* how the last onchange() promise that settled has settled
  events,         \* number of events received so far
  log,            \* what happened when: change events, calls of onchange, close
  \* ---- generateOutputPath
  files,          \* the paths of the files that exist
  outPath,        \* the last call: its options and how it settled
  \* ---- applyUpdates
  resumeFile,     \* the content of the resume file
  backupFile,     \* the content of the backup file, <<>> while there is none
  upd,            \* the call: where it is, its options, its local variables, its outcome
  updates         \* number of applyUpdates calls so far

routeVars == <<request, decision>>
pdfVars   == <<pdfFile, pdfTwin, pdfConfig, pdfPasses, pdfContent, pdfOptions>>
poolVars  == <<browser, context, isShuttingDown, idleTimer, procs, ctxs, call, sd, settled>>
genVars   == <<gen>>
\* the variables outside the pool, the route handler and the normalizer
cacheVars == <<cache, now, got, calls, ticks>>
dateVars  == <<tz, dateString, formatted, plain>>
htmlVars  == <<html, htmlData, htmlOptions>>
watchVars == <<watcher, debounceTimer, inFlight, onErrorCalls, lastOutcome, events, log>>
pathVars  == <<files, outPath>>
updVars   == <<resumeFile, backupFile, upd, updates>>
appVars   == <<genVars, cacheVars, dateVars, htmlVars, watchVars, pathVars, updVars>>
vars      == <<poolVars, routeVars, pdfVars, appVars>>
\* the variables an action on gen leaves alone
exceptGen == <<poolVars, routeVars, pdfVars, cacheVars, dateVars, htmlVars, watchVars, pathVars, updVars>>
\* the variables an action on the template cache or the clock leaves alone
exceptCache == <<poolVars, routeVars, pdfVars, genVars, dateVars, htmlVars, watchVars, pathVars, updVars>>
\* the variables a call of formatDate leaves alone
exceptDate == <<poolVars, routeVars, pdfVars, genVars, cacheVars, htmlVars, watchVars, pathVars, updVars>>
\* the variables a call of generateHTML leaves alone, the cache apart
exceptHtml == <<poolVars, routeVars, pdfVars, genVars, dateVars, watchVars, pathVars, updVars>>
\* the variables a step of the file watcher leaves alone, the clock apart
exceptWatch == <<poolVars, routeVars, pdfVars, genVars, dateVars, htmlVars, cache, got, calls, ticks,
                 pathVars, updVars>>
\* the variables a call of generateOutputPath leaves alone
exceptPath == <<poolVars, routeVars, pdfVars, genVars, cacheVars, dateVars, htmlVars, watchVars, updVars>>
\* the variables a step of applyUpdates leaves alone
exceptUpdate == <<poolVars, routeVars, pdfVars, genVars, cacheVars, dateVars, htmlVars, watchVars, pathVars>>

(***************************************************************************)
(* BrowserPool and generatePDF.                                            *)
(*                                                                         *)
(* One action is the synchronous code a task runs between two awaits of an *)
(* operation of the renderer (launch, newContext, newPage, setContent/pdf, *)
(* evaluate/close); tasks interleave at these awaits only.                 *)
(***************************************************************************)

\* a generatePDF task that is not running
IdleCall == [pc |-> "idle", obj |-> 0, page |-> 0, foundDead |-> FALSE, pend |-> "none"]

\* a shutdown() task that is not running
IdleShutdown == [pc |-> "idle", target |-> 0, closes |-> <<>>]

NothingSettled == [task |-> "none", acq |-> "none", rel |-> "none", result |-> "none"]

\* browser.isConnected()
isConnected(b) == procs[b] = "running"

\* a context on which newPage, and a page on which setContent/pdf/evaluate, work
Usable(k) == k # 0 /\ ctxs[k].st = "open" /\ isConnected(ctxs[k].browser)

\* the ids the next launch / newContext hands out (0: the bound is reached)
FreshBrowser ==
  IF \E b \in BrowserIds : procs[b] = "unborn"
  THEN CHOOSE b \in BrowserIds : procs[b] = "unborn" /\ \A a \in 1 .. b - 1 : procs[a] # "unborn"
  ELSE 0

FreshContext ==
  IF \E k \in ContextIds : ctxs[k].st = "unborn"
  THEN CHOOSE k \in ContextIds : ctxs[k].st = "unborn" /\ \A a \in 1 .. k - 1 : ctxs[a].st # "unborn"
  ELSE 0

\* the contexts of process b are gone once b is
CloseContextsOf(b, cs) ==
  [k \in ContextIds |->
     IF cs[k].browser = b /\ cs[k].st = "open" THEN [cs[k] EXCEPT !.st = "closed"] ELSE cs[k]]

\* getBrowserPage rejects with `why`: the catch block of generatePDF maps the error
\* (it has no ENOENT/EACCES code) to PDFGenerationError, the finally block finds
\* page = null, and generatePDF rejects.
reject(c, why) ==
  /\ call' = [call EXCEPT ![c] = IdleCall]
  /\ settled' = [task |-> c, acq |-> why, rel |-> "none", result |-> "PDFGenerationError"]

\* getBrowserPage after `await this.ensureBrowser()`, for the task record r:
\* lastUsed, resetIdleTimer, the context check and the call of context.newPage().
afterEnsureBrowser(c, r, ctxNow) ==
  /\ idleTimer' = "armed"
  /\ IF ctxNow = 0
     THEN reject(c, "Browser context not available")
     ELSE /\ call' = [call EXCEPT ![c] = [r EXCEPT !.pc = "newPage", !.obj = ctxNow]]
          /\ settled' = NothingSettled

\* ensureBrowser from its second test on, this.browser being brNow:
\* createContext (which calls browser.newContext) when this.context is null.
ensureContext(c, r, brNow) ==
  IF context = 0
  THEN IF brNow = 0
       THEN /\ reject(c, "Browser not available")
            /\ UNCHANGED <<ctxs, idleTimer>>
       ELSE /\ FreshContext # 0
            /\ ctxs' = [ctxs EXCEPT ![FreshContext] = [browser |-> brNow, st |-> "creating"]]
            /\ call' = [call EXCEPT ![c] = [r EXCEPT !.pc = "createContext", !.obj = FreshContext]]
            /\ settled' = NothingSettled
            /\ UNCHANGED idleTimer
  ELSE /\ afterEnsureBrowser(c, r, context)
       /\ UNCHANGED ctxs

\* getBrowserPage from `await this.ensureBrowser()` on, up to its first await:
\* createBrowser (which calls chromium.launch) when there is no connected browser.
ensureBrowser(c) ==
  IF browser = 0 \/ ~isConnected(browser)
  THEN /\ FreshBrowser # 0
       /\ procs' = [procs EXCEPT ![FreshBrowser] = "launching"]
       /\ call' = [call EXCEPT ![c] = [IdleCall EXCEPT !.pc = "createBrowser", !.obj = FreshBrowser,
                                                       !.foundDead = (browser # 0)]]
       /\ settled' = NothingSettled
       /\ UNCHANGED <<idleTimer, ctxs>>
  ELSE /\ ensureContext(c, IdleCall, browser)
       /\ UNCHANGED procs

\* getBrowserPage without its test of the flag
getBrowserPage_noFlagTest(c) == ensureBrowser(c)

\* getBrowserPage, up to its first await
getBrowserPage(c) ==
  IF isShuttingDown
  THEN /\ reject(c, "Browser pool is shutting down")
       /\ UNCHANGED <<idleTimer, procs, ctxs>>
  ELSE ensureBrowser(c)

\* generatePDF is called: everything up to the first await inside getBrowserPage.
\* (validateResumeData, mkdir and generateHTML do not touch the pool.)
generatePDF_call(c) ==
  /\ call[c].pc = "idle"
  /\ getBrowserPage(c)
  /\ UNCHANGED <<browser, context, isShuttingDown, sd, routeVars, pdfVars, appVars>>

\* chromium.launch() resolves: this.browser is assigned, ensureBrowser goes on.
createBrowser_done(c) ==
  /\ call[c].pc = "createBrowser"
  /\ procs' = [procs EXCEPT ![call[c].obj] = "running"]
  /\ browser' = call[c].obj
  /\ ensureContext(c, call[c], call[c].obj)
  /\ UNCHANGED <<context, isShuttingDown, sd, routeVars, pdfVars, appVars>>

\* browser.newContext() settles: it resolves while its process runs, and then
\* this.context is assigned and getBrowserPage goes on; it rejects otherwise.
createContext_done(c) ==
  /\ call[c].pc = "createContext"
  /\ LET k == call[c].obj IN
     IF isConnected(ctxs[k].browser)
     THEN /\ ctxs' = [ctxs EXCEPT ![k].st = "open"]
          /\ context' = k
          /\ afterEnsureBrowser(c, call[c], k)
     ELSE /\ ctxs' = [ctxs EXCEPT ![k].st = "closed"]
          /\ reject(c, "newContext: browser has been closed")
          /\ UNCHANGED <<context, idleTimer>>
  /\ UNCHANGED <<browser, isShuttingDown, procs, sd, routeVars, pdfVars, appVars>>

\* context.newPage(), page.setViewportSize() and page.route() settle: the page is
\* returned to generatePDF, which calls page.setContent(); newPage rejects on a
\* context that is closed or whose process is gone.
newPage_done(c) ==
  /\ call[c].pc = "newPage"
  /\ IF Usable(call[c].obj)
     THEN /\ call' = [call EXCEPT ![c] = [@ EXCEPT !.pc = "setContent", !.page = call[c].obj,
                                                   !.obj = 0, !.foundDead = FALSE]]
          /\ settled' = NothingSettled
     ELSE reject(c, "newPage: context or browser has been closed")
  /\ UNCHANGED <<browser, context, isShuttingDown, idleTimer, procs, ctxs, sd, routeVars, pdfVars, appVars>>

\* the try block of generatePDF ends with `how` ("path" for `return outputPath`,
\* else the error the catch block throws); finally calls releasePage(page).
enterFinally(c, how) ==
  /\ call' = [call EXCEPT ![c] = [@ EXCEPT !.pc = "releasePage", !.pend = how]]
  /\ settled' = NothingSettled

\* page.setContent(), page.pdf() and ensureDeterministicPDF() settle, none of which
\* touches the pool. setContent and pdf reject on a dead page; setContent may time
\* out; a failure with code ENOENT or EACCES becomes FileSystemError, any other
\* failure PDFGenerationError.
setContent_done(c) ==
  /\ call[c].pc = "setContent"
  /\ \/ /\ Usable(call[c].page)
        /\ enterFinally(c, "path")
     \/ enterFinally(c, "PDFGenerationError")
     \/ enterFinally(c, "FileSystemError")
  /\ UNCHANGED <<browser, context, isShuttingDown, idleTimer, procs, ctxs, sd, routeVars, pdfVars, appVars>>

\* releasePage without its catch block
releasePage_noCatch(failed) == IF failed THEN "threw" ELSE "released"

\* releasePage(page), page.evaluate() or page.close() having failed or not: the
\* catch block logs the error, and releasePage resolves either way.
releasePage(failed) == IF failed THEN "swallowed" ELSE "released"

\* releasePage settles and generatePDF settles with what its try block left,
\* unless the finally block throws.
releasePage_done(c) ==
  /\ call[c].pc = "releasePage"
  /\ \E failed \in BOOLEAN :
       /\ ~Usable(call[c].page) => failed
       /\ settled' = [task |-> c, acq |-> "ok", rel |-> releasePage(failed),
                      result |-> IF releasePage(failed) = "threw" THEN "Error" ELSE call[c].pend]
  /\ call' = [call EXCEPT ![c] = IdleCall]
  /\ UNCHANGED <<browser, context, isShuttingDown, idleTimer, procs, ctxs, sd, routeVars, pdfVars, appVars>>

\* shutdown() resolves
resolved(s) == [task |-> s, acq |-> "none", rel |-> "none", result |-> "resolved"]

\* shutdown() from its second try block on, this.browser being brNow and r the
\* task's record: browser.close() is called, or there is nothing left to close
\* and the flag is reset.
closeBrowser(s, r, brNow) ==
  IF brNow # 0
  THEN /\ sd' = [sd EXCEPT ![s] = [r EXCEPT !.pc = "browserClose", !.target = brNow,
                                            !.closes = Append(r.closes, "browser")]]
       /\ isShuttingDown' = TRUE
       /\ settled' = NothingSettled
  ELSE /\ sd' = [sd EXCEPT ![s] = IdleShutdown]
       /\ isShuttingDown' = FALSE
       /\ settled' = resolved(s)

\* shutdown() without its early return
shutdown_noEarlyReturn(s) ==
  /\ idleTimer' = "null"
  /\ IF context # 0
     THEN /\ sd' = [sd EXCEPT ![s] = [IdleShutdown EXCEPT !.pc = "contextClose", !.target = context,
                                                          !.closes = <<"context">>]]
          /\ isShuttingDown' = TRUE
          /\ settled' = NothingSettled
     ELSE closeBrowser(s, IdleShutdown, browser)

\* shutdown(), called by invoker s: the early return, or the flag, the timer and
\* the first try block up to its await.
shutdown(s) ==
  IF isShuttingDown
  THEN /\ settled' = resolved(s)
       /\ idleTimer' = IF s = "timer" THEN "expired" ELSE idleTimer
       /\ UNCHANGED <<isShuttingDown, sd>>
  ELSE /\ idleTimer' = "null"
       /\ IF context # 0
          THEN /\ sd' = [sd EXCEPT ![s] = [IdleShutdown EXCEPT !.pc = "contextClose", !.target = context,
                                                               !.closes = <<"context">>]]
               /\ isShuttingDown' = TRUE
               /\ settled' = NothingSettled
          ELSE closeBrowser(s, IdleShutdown, browser)

\* an explicit call of browserPool.shutdown(): test teardown, SIGINT, SIGTERM
shutdown_call(s) ==
  /\ s # "timer"
  /\ sd[s].pc = "idle"
  /\ shutdown(s)
  /\ UNCHANGED <<browser, context, procs, ctxs, call, routeVars, pdfVars, appVars>>

\* the timeout set by resetIdleTimer expires: its callback calls this.shutdown()
idleTimer_fire ==
  /\ idleTimer = "armed"
  /\ shutdown("timer")
  /\ UNCHANGED <<browser, context, procs, ctxs, call, routeVars, pdfVars, appVars>>

\* a try block of shutdown() around a close() that resolved (ok) or rejected:
\* the catch block logs the error and shutdown() goes on
tryClose(ok) == IF ok THEN "closed" ELSE "caught"

\* shutdown() rejects with the error of a close(): nothing after the throw runs
rejected(s) == [task |-> s, acq |-> "none", rel |-> "none", result |-> "rejected"]

\* context.close() settles: on success this.context is set to null, a failure is
\* caught and logged; then the second try block runs.
contextClose_done(s) ==
  /\ sd[s].pc = "contextClose"
  /\ \E ok \in BOOLEAN :
       IF tryClose(ok) = "thrown"
       THEN /\ sd' = [sd EXCEPT ![s] = IdleShutdown]
            /\ settled' = rejected(s)
            /\ UNCHANGED <<ctxs, context, isShuttingDown>>
       ELSE /\ IF ok
               THEN /\ ctxs' = [ctxs EXCEPT ![sd[s].target].st = "closed"]
                    /\ context' = 0
               ELSE UNCHANGED <<ctxs, context>>
            /\ closeBrowser(s, sd[s], browser)
  /\ UNCHANGED <<browser, idleTimer, procs, call, routeVars, pdfVars, appVars>>

\* browser.close() settles: on success this.browser is set to null, a failure is
\* caught and logged; then the flag is reset and shutdown() resolves.
browserClose_done(s) ==
  /\ sd[s].pc = "browserClose"
  /\ \E ok \in BOOLEAN :
       IF tryClose(ok) = "thrown"
       THEN /\ settled' = rejected(s)
            /\ UNCHANGED <<procs, ctxs, browser, isShuttingDown>>
       ELSE /\ IF ok
               THEN /\ procs' = [procs EXCEPT ![sd[s].target] = "dead"]
                    /\ ctxs' = CloseContextsOf(sd[s].target, ctxs)
                    /\ browser' = 0
               ELSE UNCHANGED <<procs, ctxs, browser>>
            /\ isShuttingDown' = FALSE
            /\ settled' = resolved(s)
  /\ sd' = [sd EXCEPT ![s] = IdleShutdown]
  /\ UNCHANGED <<context, idleTimer, call, routeVars, pdfVars, appVars>>

\* the renderer process b is terminated from outside (crash, kill)
browser_killed(b) ==
  /\ procs[b] = "running"
  /\ procs' = [procs EXCEPT ![b] = "dead"]
  /\ ctxs' = CloseContextsOf(b, ctxs)
  /\ settled' = NothingSettled
  /\ UNCHANGED <<browser, context, isShuttingDown, idleTimer, call, sd, routeVars, pdfVars, appVars>>

(***************************************************************************)
(* The route handler that getBrowserPage installs on every page it issues  *)
(***************************************************************************)

\* str.startsWith(prefix), on sequences of characters
startsWith(str, prefix) ==
  Len(str) >= Len(prefix) /\ SubSeq(str, 1, Len(prefix)) = prefix

\* str.includes(pat)
includes(str, pat) ==
  \E i \in 1 .. Len(str) - Len(pat) + 1 : SubSeq(str, i, i + Len(pat) - 1) = pat

FileScheme == <<"f", "i", "l", "e", ":", "/", "/">>
DataScheme == <<"d", "a", "t", "a", ":">>
BlobScheme == <<"b", "l", "o", "b", ":">>

\* the handler without its test of the URL
routeHandler_anyOrigin(resourceType, url) ==
  IF resourceType \in {"document", "stylesheet", "font"}
  THEN <<"continue">>
  ELSE <<"abort blockedbyclient">>

\* the handler passed to page.route('**/*', ...): the calls it makes on the route
routeHandler(resourceType, url) ==
  IF resourceType \in {"document", "stylesheet", "font"}
  THEN IF startsWith(url, FileScheme) \/ startsWith(url, DataScheme) \/ startsWith(url, BlobScheme)
       THEN <<"continue">>
       ELSE <<"abort internetdisconnected">>
  ELSE <<"abort blockedbyclient">>

NoRequest == [resourceType |-> "none", url |-> <<>>]

\* request.resourceType() as the renderer reports it
ResourceTypes ==
  {"document", "stylesheet", "image", "media", "font", "script", "texttrack", "xhr",
   "fetch", "eventsource", "websocket", "manifest", "other"}

\* request.url(): the allowed schemes, remote origins, and near misses
Urls ==
  {<<"f", "i", "l", "e", ":", "/", "/", "/", "r", ".", "h", "t", "m", "l">>,
   <<"d", "a", "t", "a", ":", ",", "x">>,
   <<"b", "l", "o", "b", ":", "x">>,
   <<"h", "t", "t", "p", ":", "/", "/", "h", "/", "a">>,
   <<"h", "t", "t", "p", "s", ":", "/", "/", "h", "/", "a">>,
   <<"f", "i", "l", "e", ":", "/", "r">>,
   <<"x", "f", "i", "l", "e", ":", "/", "/", "r">>,
   <<"a", "b", "o", "u", "t", ":", "b", "l", "a", "n", "k">>,
   <<"D", "a", "t", "a", ":", ",", "x">>,
   <<"d", "a", "t", "a">>}

\* the page makes a request, which the route intercepts
page_request(t, u) ==
  /\ request' = [resourceType |-> t, url |-> u]
  /\ decision' = <<>>
  /\ request' # request
  /\ UNCHANGED <<browser, context, isShuttingDown, idleTimer, procs, ctxs, call, sd, settled, pdfVars, appVars>>

\* the handler runs on the intercepted request
route_handle ==
  /\ request # NoRequest
  /\ decision = <<>>
  /\ decision' = routeHandler(request.resourceType, request.url)
  /\ UNCHANGED <<browser, context, isShuttingDown, idleTimer, procs, ctxs, call, sd, settled,
                 request, pdfVars, appVars>>

(***************************************************************************)
(* ensureDeterministicPDF, on files that are sequences of characters        *)
(***************************************************************************)

\* the literal text that opens each pattern, and the constant replacement
CreationDateKey == <<"/", "C", "r", "e", "a", "t", "i", "o", "n", "D", "a", "t", "e", " ", "(">>
ModDateKey      == <<"/", "M", "o", "d", "D", "a", "t", "e", " ", "(">>
IDKey           == <<"/", "I", "D", " ", "[">>
ProducerKey     == <<"/", "P", "r", "o", "d", "u", "c", "e", "r", " ", "(">>
CreatorKey      == <<"/", "C", "r", "e", "a", "t", "o", "r", " ", "(">>
TitleKey        == <<"/", "T", "i", "t", "l", "e", " ", "(">>
GeneratorName   == <<"R", "e", "s", "u", "m", "e", " ", "P", "D", "F", " ", "G", "e", "n", "e", "r", "a", "t", "o", "r">>

\* a character outside latin1 and the byte Buffer.from(str, 'binary') keeps of it
WideChar == "U+20AC"
LowByte  == "U+00AC"

\* pdfBuffer.toString('binary'): one character per byte
toBinaryString(bytes) == bytes

\* Buffer.from(str, 'binary'): the low byte of every character
BufferFromBinary(str) ==
  [i \in 1 .. Len(str) |-> IF str[i] = WideChar THEN LowByte ELSE str[i]]

\* the least j >= from with str[j] = ch, or 0
RECURSIVE indexOf(_, _, _)
indexOf(str, ch, from) ==
  IF from > Len(str) THEN 0
  ELSE IF str[from] = ch THEN from
  ELSE indexOf(str, ch, from + 1)

\* where a match of  key [^close]{least,} close  that starts at i ends, or 0
matchEnd(str, i, key, close, least) ==
  IF i + Len(key) - 1 <= Len(str) /\ SubSeq(str, i, i + Len(key) - 1) = key
  THEN LET j == indexOf(str, close, i + Len(key))
       IN IF j # 0 /\ j - (i + Len(key)) >= least THEN j ELSE 0
  ELSE 0

\* str.replace(/key[^close]{least,}close/g, replacement), scanning from i
RECURSIVE replaceFrom(_, _, _, _, _, _)
replaceFrom(str, i, key, close, least, replacement) ==
  IF i > Len(str) THEN <<>>
  ELSE LET e == matchEnd(str, i, key, close, least)
       IN IF e # 0
          THEN replacement \o replaceFrom(str, e + 1, key, close, least, replacement)
          ELSE <<str[i]>> \o replaceFrom(str, i + 1, key, close, least, replacement)

replace(str, key, close, least, replacement) ==
  replaceFrom(str, 1, key, close, least, replacement)

\* str.match(/key[^close]*close/): the index of the first match, or 0
RECURSIVE matchIndex(_, _, _, _)
matchIndex(str, i, key, close) ==
  IF i > Len(str) THEN 0
  ELSE IF matchEnd(str, i, key, close, 0) # 0 THEN i
  ELSE matchIndex(str, i + 1, key, close)

\* lines 56-61 without the second replacement
removeTimestamps_creationOnly(str) ==
  replace(str, CreationDateKey, ")", 0, <<>>)

\* lines 56-61: the two timestamp fields are removed
removeTimestamps(str) ==
  replace(replace(str, CreationDateKey, ")", 0, <<>>), ModDateKey, ")", 0, <<>>)

\* lines 63-69: the ID array is removed, producer and creator are overwritten
removeVariableMetadata(str) ==
  LET noId     == replace(str, IDKey, "]", 1, <<>>)
      producer == replace(noId, ProducerKey, ")", 0, ProducerKey \o GeneratorName \o <<")">>)
  IN replace(producer, CreatorKey, ")", 0, CreatorKey \o GeneratorName \o <<")">>)

\* lines 71-80: the fixed creation date is inserted after the first title field
insertCreationDate(str, date) ==
  LET at == matchIndex(str, 1, TitleKey, ")")
  IN IF at = 0 THEN str
     ELSE LET insertPoint == matchEnd(str, at, TitleKey, ")", 0)
          IN SubSeq(str, 1, insertPoint)
             \o <<"\n">> \o CreationDateKey \o date \o <<")">>
             \o SubSeq(str, insertPoint + 1, Len(str))

\* ensureDeterministicPDF(pdfPath, config): the content of the file afterwards
ensureDeterministicPDF(file, config) ==
  IF ~config.removeTimestamps /\ ~config.removeVariableMetadata
  THEN file
  ELSE LET s0 == toBinaryString(file)
           s1 == IF config.removeTimestamps THEN removeTimestamps(s0) ELSE s0
           s2 == IF config.removeVariableMetadata THEN removeVariableMetadata(s1) ELSE s1
           s3 == IF config.fixedCreationDate # <<>>
                 THEN insertCreationDate(s2, config.fixedCreationDate) ELSE s2
       IN BufferFromBinary(s3)

DEFAULT_DETERMINISTIC_CONFIG ==
  [removeTimestamps |-> TRUE, removeVariableMetadata |-> TRUE, fixedCreationDate |-> <<>>]

\* ---- the artifacts and configurations the normalizer is run on

\* a metadata field as the exporter writes it
Field(key, value, close) == key \o value \o <<close>>

\* values of the timestamp fields
DateValues == {<<"D", ":", "1">>, <<"D", ":", "2">>}
\* values of the ID array
IdValues == {<<"<", "1", ">">>, <<"<", "2", ">">>}
\* values of producer and creator: plain, and with an escaped parenthesis (the
\* literal-string syntax in which the renderer writes its user agent)
NameValues == {<<"S", "1">>, <<"M", "\\", "(", "X", "\\", ")", "2">>}
\* the title field, which no run changes
TitleField == Field(TitleKey, <<"T">>, ")")
\* content that is not metadata: a comment line, and a stream whose data holds
\* the text of an ID array
ContentParts ==
  {<<"%", "x", "\n">>,
   <<"s", "t", "r", "e", "a", "m", "\n">> \o Field(IDKey, <<"x">>, "]")
     \o <<"\n", "e", "n", "d", "s", "t", "r", "e", "a", "m">>}
\* everything else in the file, the same in both artifacts
FixedParts == {TitleField} \cup ContentParts

\* a part of an artifact and of its twin: the two differ at most in the value
\* of a creation-date, modification-date, ID, producer or creator field
Parts ==
  {<<Field(CreationDateKey, v, ")"), Field(CreationDateKey, w, ")")>> : v \in DateValues, w \in DateValues}
  \cup {<<Field(ModDateKey, v, ")"), Field(ModDateKey, w, ")")>> : v \in DateValues, w \in DateValues}
  \cup {<<Field(IDKey, v, "]"), Field(IDKey, w, "]")>> : v \in IdValues, w \in IdValues}
  \cup {<<Field(ProducerKey, v, ")"), Field(ProducerKey, w, ")")>> : v \in NameValues, w \in NameValues}
  \cup {<<Field(CreatorKey, v, ")"), Field(CreatorKey, w, ")")>> : v \in NameValues, w \in NameValues}
  \cup {<<t, t>> : t \in FixedParts}

\* the parts of a layout, put one after the other (side 1: the artifact, 2: its twin)
RECURSIVE join(_, _, _)
join(layout, side, n) ==
  IF n = 0 THEN <<>> ELSE join(layout, side, n - 1) \o layout[n][side]

\* the bytes of the content parts of a layout, in their order
RECURSIVE contentOf(_, _)
contentOf(layout, n) ==
  IF n = 0 THEN <<>>
  ELSE contentOf(layout, n - 1) \o (IF layout[n][1] \in ContentParts THEN layout[n][1] ELSE <<>>)

\* DeterministicConfig values: both flags, with and without fixedCreationDate
Configs ==
  [removeTimestamps : BOOLEAN, removeVariableMetadata : BOOLEAN,
   fixedCreationDate : {<<>>, <<"D", ":", "9">>}]

\* ensureDeterministicPDF runs on the artifact and on its twin
normalize ==
  /\ pdfPasses < MaxPasses
  /\ pdfFile' = ensureDeterministicPDF(pdfFile, pdfConfig)
  /\ pdfTwin' = ensureDeterministicPDF(pdfTwin, pdfConfig)
  /\ pdfPasses' = pdfPasses + 1
  /\ UNCHANGED <<browser, context, isShuttingDown, idleTimer, procs, ctxs, call, sd, settled,
                 routeVars, pdfConfig, pdfContent, pdfOptions, appVars>>

\* PDFOptions without deterministic and deterministicConfig
NoOptions == [deterministic |-> "undefined", deterministicConfig |-> <<>>]

\* PDFOptions values: deterministic absent, true or false; deterministicConfig
\* absent (<<>>) or one of the configurations
PDFOptions ==
  [deterministic : {"undefined", "true", "false"},
   deterministicConfig : {<<>>} \cup {<<cfg>> : cfg \in Configs}]

\* generatePDF, lines 381-386: what is at the output path when it returns it,
\* page.pdf() having written `file` there
generatePDF_deterministic(file, options) ==
  LET shouldBeDeterministic == options.deterministic # "false"
  IN IF shouldBeDeterministic
     THEN LET config == IF options.deterministicConfig # <<>>
                        THEN options.deterministicConfig[1]
                        ELSE DEFAULT_DETERMINISTIC_CONFIG
          IN ensureDeterministicPDF(file, config)
     ELSE file

\* generatePDF goes from the resolved page.pdf() to `return outputPath`
generatePDF_return ==
  /\ pdfPasses = 0
  /\ pdfFile' = generatePDF_deterministic(pdfFile, pdfOptions)
  /\ pdfPasses' = 1
  /\ UNCHANGED <<browser, context, isShuttingDown, idleTimer, procs, ctxs, call, sd, settled,
                 routeVars, pdfTwin, pdfConfig, pdfContent, pdfOptions, appVars>>

(***************************************************************************)
(* generatePDF, one call: its awaits in order, its catch and finally blocks *)
(***************************************************************************)

\* no error
NoError == [type |-> "none", code |-> "undefined", message |-> ""]

\* what an awaited operation may reject with: errors of node's fs (code ENOENT,
\* EACCES, ENOSPC), errors of the renderer (no code), the pool's
\* PDFGenerationError
Errors ==
  [type : {"Error"}, code : {"ENOENT", "EACCES", "ENOSPC", "undefined"},
   message : {"no such file or directory", "Timeout 10000ms exceeded"}]
  \cup {[type |-> "PDFGenerationError", code |-> "PDF_GENERATION_ERROR",
         message |-> "Browser pool is shutting down"]}

\* options.output: absent ("") or given
Outputs == {"", "out/cv.pdf", "cv.pdf"}

\* a call that has not started
IdleGen ==
  [pc |-> "idle", outputPath |-> "", deterministic |-> TRUE, page |-> FALSE,
   error |-> NoError, thrown |-> NoError, result |-> "none", releases |-> 0]

\* the awaits of the try block, in order
nextAwait(pc, deterministic) ==
  CASE pc = "mkdir" -> "generateHTML"
    [] pc = "generateHTML" -> "getBrowserPage"
    [] pc = "getBrowserPage" -> "setContent"
    [] pc = "setContent" -> "pdf"
    [] pc = "pdf" -> IF deterministic THEN "ensureDeterministicPDF" ELSE "return"
    [] pc = "ensureDeterministicPDF" -> "return"

\* new FileSystemError(message) and new PDFGenerationError(message)
FileSystemError(message) ==
  [type |-> "FileSystemError", code |-> "FILESYSTEM_ERROR", message |-> message]
PDFGenerationError(message) ==
  [type |-> "PDFGenerationError", code |-> "PDF_GENERATION_ERROR", message |-> message]

\* the catch block without its mapping: the error is thrown on
catchBlock_rethrow(error, outputPath) == error

\* the catch block of generatePDF: the error it throws
catchBlock(error, outputPath) ==
  IF error.code = "ENOENT" \/ error.code = "EACCES"
  THEN FileSystemError("Cannot write to output path: " \o outputPath)
  ELSE PDFGenerationError("Failed to generate PDF: " \o error.message)

\* the finally block without its test of page: releasePage is always called
finallyBlock_always(r) ==
  [r EXCEPT !.pc = "releasePage", !.releases = @ + 1]

\* the finally block for the task record r: releasePage is called (releases
\* counts the calls) and awaited if a page was acquired, else generatePDF settles
finallyBlock(r) ==
  IF r.page
  THEN [r EXCEPT !.pc = "releasePage", !.releases = @ + 1]
  ELSE [r EXCEPT !.pc = "settled",
                 !.result = IF r.thrown = NoError THEN "resolved" ELSE "rejected"]

\* generatePDF(resumeData, options) is called: validateResumeData throws a
\* ValidationError out of the call, or outputPath is set and mkdir is awaited
generatePDF_begin(valid, output, deterministic) ==
  /\ gen.pc \in {"idle", "settled"}
  /\ IF valid
     THEN gen' = [IdleGen EXCEPT !.pc = "mkdir",
                                 !.outputPath = IF output # "" THEN output ELSE "resume.pdf",
                                 !.deterministic = deterministic]
     ELSE gen' = [IdleGen EXCEPT !.pc = "settled", !.result = "rejected",
                                 !.thrown = [type |-> "ValidationError", code |-> "VALIDATION_ERROR",
                                             message |-> "Resume validation failed"]]
  /\ UNCHANGED exceptGen

\* the awaited operation of the try block resolves (e = NoError) and the block
\* goes on to its next await or to its return, or it rejects with e and the
\* catch block runs; either way the finally block follows the end of try/catch.
\* The variable page is assigned when getBrowserPage has resolved.
generatePDF_await(e) ==
  /\ gen.pc \in {"mkdir", "generateHTML", "getBrowserPage", "setContent", "pdf",
                 "ensureDeterministicPDF"}
  /\ IF e = NoError
     THEN LET r == [gen EXCEPT !.page = (@ \/ gen.pc = "getBrowserPage")]
          IN IF nextAwait(gen.pc, gen.deterministic) = "return"
             THEN gen' = finallyBlock(r)
             ELSE gen' = [r EXCEPT !.pc = nextAwait(gen.pc, gen.deterministic)]
     ELSE gen' = finallyBlock([gen EXCEPT !.error = e, !.thrown = catchBlock(e, gen.outputPath)])
  /\ UNCHANGED exceptGen

\* browserPool.releasePage(page) settles, page.evaluate() or page.close() having
\* failed or not, and generatePDF settles
generatePDF_finally(failed) ==
  /\ gen.pc = "releasePage"
  /\ gen' = [gen EXCEPT !.pc = "settled",
                        !.thrown = IF releasePage(failed) = "threw"
                                   THEN [type |-> "Error", code |-> "undefined",
                                         message |-> "Target page has been closed"]
                                   ELSE @,
                        !.result = IF releasePage(failed) = "threw" \/ gen.thrown # NoError
                                   THEN "rejected" ELSE "resolved"]
  /\ UNCHANGED exceptGen

InitGenIdle == gen = IdleGen

NextGenerate ==
  \/ \E valid \in BOOLEAN, output \in Outputs, deterministic \in BOOLEAN :
       generatePDF_begin(valid, output, deterministic)
  \/ \E e \in Errors \cup {NoError} : generatePDF_await(e)
  \/ \E failed \in BOOLEAN : generatePDF_finally(failed)

(***************************************************************************)
(* TemplateCache                                                           *)
(***************************************************************************)

MAX_CACHE_SIZE == 10
CACHE_TTL == 5 * 60 * 1000

\* the keys getTemplate is called with (generateHTML: 'default', 'professional')
Keys == {"default", "professional"}
\* the template sources it is called with
Sources == {"template"}
\* by how many milliseconds the clock is seen to advance between two steps
Ticks == {1, CACHE_TTL - 1, CACHE_TTL}

\* this.cache.get(key) of a key that is not in the Map
NoEntry == [key |-> "", template |-> [source |-> "", born |-> 0],
            compiledAt |-> 0, lastUsed |-> 0, useCount |-> 0]

\* handlebars.compile(templateSource): a new function object, made at `at`
compile(templateSource, at) == [source |-> templateSource, born |-> at]

\* the position of key in the Map, or 0
indexOfKey(c, key) ==
  IF \E i \in 1 .. Len(c) : c[i].key = key
  THEN CHOOSE i \in 1 .. Len(c) : c[i].key = key
  ELSE 0

\* the head of the array sorted the other way round: the last of the entries
\* with the greatest lastUsed
leastRecentlyUsed_newest(c) ==
  CHOOSE i \in 1 .. Len(c) :
    /\ \A j \in 1 .. Len(c) : c[i].lastUsed >= c[j].lastUsed
    /\ \A j \in i + 1 .. Len(c) : c[j].lastUsed < c[i].lastUsed

\* the first of the entries with the least lastUsed: the head of the sorted array
leastRecentlyUsed(c) ==
  CHOOSE i \in 1 .. Len(c) :
    /\ \A j \in 1 .. Len(c) : c[i].lastUsed <= c[j].lastUsed
    /\ \A j \in 1 .. i - 1 : c[j].lastUsed > c[i].lastUsed

\* the entries of toRemove are deleted: the n least recently used
RECURSIVE removeLeastRecentlyUsed(_, _)
removeLeastRecentlyUsed(c, n) ==
  IF n = 0 THEN c
  ELSE LET i == leastRecentlyUsed(c)
       IN removeLeastRecentlyUsed(SubSeq(c, 1, i - 1) \o SubSeq(c, i + 1, Len(c)), n - 1)

\* cleanupCache(): the Map afterwards
cleanupCache(c, t) ==
  IF Len(c) <= MAX_CACHE_SIZE THEN c
  ELSE LET unexpired(e) == ~((t - e.compiledAt) >= CACHE_TTL)
           kept == SelectSeq(c, unexpired)
       IN IF Len(kept) > MAX_CACHE_SIZE
          THEN removeLeastRecentlyUsed(kept, Len(kept) - MAX_CACHE_SIZE)
          ELSE kept

\* getTemplate without its test of the age
getTemplate_noTTL(c, key, templateSource, t) ==
  LET i == indexOfKey(c, key)
      cached == IF i = 0 THEN NoEntry ELSE c[i]
  IN IF i # 0
     THEN [cache |-> [c EXCEPT ![i].lastUsed = t, ![i].useCount = @ + 1],
           cached |-> cached, template |-> cached.template]
     ELSE LET template == compile(templateSource, t)
              entry == [key |-> key, template |-> template, compiledAt |-> t,
                        lastUsed |-> t, useCount |-> 1]
          IN [cache |-> cleanupCache(Append(c, entry), t),
              cached |-> cached, template |-> template]

\* getTemplate(key, templateSource) on the Map c at time t: the Map afterwards,
\* the entry found and the template returned
getTemplate(c, key, templateSource, t) ==
  LET i == indexOfKey(c, key)
      cached == IF i = 0 THEN NoEntry ELSE c[i]
  IN IF i # 0 /\ (t - cached.compiledAt) < CACHE_TTL
     THEN [cache |-> [c EXCEPT ![i].lastUsed = t, ![i].useCount = @ + 1],
           cached |-> cached, template |-> cached.template]
     ELSE LET template == compile(templateSource, t)
              entry == [key |-> key, template |-> template, compiledAt |-> t,
                        lastUsed |-> t, useCount |-> 1]
              set == IF i # 0 THEN [c EXCEPT ![i] = entry] ELSE Append(c, entry)
          IN [cache |-> cleanupCache(set, t), cached |-> cached, template |-> template]

\* no getTemplate call yet
NoCall == [key |-> "", at |-> 0, cached |-> NoEntry, template |-> NoEntry.template]

\* templateCache.getTemplate(key, templateSource) is called
getTemplate_call(key, templateSource) ==
  /\ calls < MaxCalls
  /\ LET r == getTemplate(cache, key, templateSource, now)
     IN /\ cache' = r.cache
        /\ got' = [key |-> key, at |-> now, cached |-> r.cached, template |-> r.template]
  /\ calls' = calls + 1
  /\ UNCHANGED <<now, ticks, exceptCache>>

\* time passes
clock_tick(d) ==
  /\ ticks < MaxTicks
  /\ now' = now + d
  /\ ticks' = ticks + 1
  /\ UNCHANGED <<cache, got, calls, exceptCache>>

InitCacheIdle ==
  /\ cache = <<>>
  /\ now = 0
  /\ got = NoCall
  /\ calls = 0
  /\ ticks = 0

NextCache ==
  \/ \E key \in Keys, templateSource \in Sources : getTemplate_call(key, templateSource)
  \/ \E d \in Ticks : clock_tick(d)

\* ---- a cache that is full: MAX_CACHE_SIZE calls with one key each have been
\* made at the times 0 and FillEnd, some entries have been used again at FillEnd

\* the keys of the full cache, in the order of their first call
FullKeys == <<"k1", "k2", "k3", "k4", "k5", "k6", "k7", "k8", "k9", "k10">>
\* the time of the last call that filled the cache
FillEnd == 1
\* the first key, the last key and the keys between them
Places == {"first", "middle", "last"}
placeOf(i) == IF i = 1 THEN "first" ELSE IF i = MAX_CACHE_SIZE THEN "last" ELSE "middle"

\* the Map after the calls: the key at place p was compiled at compiledAt[p] and
\* was last used at lastUsed[p]
fullCache(compiledAt, lastUsed) ==
  [i \in 1 .. MAX_CACHE_SIZE |->
     [key |-> FullKeys[i], template |-> compile("template", compiledAt[placeOf(i)]),
      compiledAt |-> compiledAt[placeOf(i)], lastUsed |-> lastUsed[placeOf(i)],
      useCount |-> IF lastUsed[placeOf(i)] = compiledAt[placeOf(i)] THEN 1 ELSE 2]]

\* the keys getTemplate is then called with: one of the cache, two new ones
KeysWhenFull == {"k1"} \cup Keys

InitFull ==
  /\ \E compiledAt \in [Places -> {0, FillEnd}], lastUsed \in [Places -> {0, FillEnd}] :
       /\ compiledAt["first"] <= compiledAt["middle"]
       /\ compiledAt["middle"] <= compiledAt["last"]
       /\ \A p \in Places : lastUsed[p] >= compiledAt[p]
       /\ cache = fullCache(compiledAt, lastUsed)
  /\ now = FillEnd
  /\ got = NoCall
  /\ calls = 0
  /\ ticks = 0

NextFull ==
  \/ \E key \in KeysWhenFull, templateSource \in Sources : getTemplate_call(key, templateSource)
  \/ \E d \in Ticks : clock_tick(d)

(***************************************************************************)
(* The formatDate helper of the HTML template. Time is counted in minutes   *)
(* since 1970-01-01T00:00Z.                                                 *)
(***************************************************************************)

\* Number(s) of a string that is no numeral
NaN == -1

MinutesPerDay == 24 * 60

DigitValue ==
  [c \in {"0", "1", "2", "3", "4", "5", "6", "7", "8", "9"} |->
     CASE c = "0" -> 0 [] c = "1" -> 1 [] c = "2" -> 2 [] c = "3" -> 3 [] c = "4" -> 4
       [] c = "5" -> 5 [] c = "6" -> 6 [] c = "7" -> 7 [] c = "8" -> 8 [] c = "9" -> 9]

\* Number(str) of a string of decimal digits; Number(undefined) is NaN
RECURSIVE digitsValue(_, _)
digitsValue(str, n) ==
  IF n = 0 THEN 0 ELSE 10 * digitsValue(str, n - 1) + DigitValue[str[n]]

Number(str) ==
  IF str # <<>> /\ \A i \in 1 .. Len(str) : str[i] \in DOMAIN DigitValue
  THEN digitsValue(str, Len(str))
  ELSE NaN

\* str.split(sep), from position i on, `part` being the part read so far
RECURSIVE splitFrom(_, _, _, _)
splitFrom(str, sep, i, part) ==
  IF i > Len(str) THEN <<part>>
  ELSE IF str[i] = sep THEN <<part>> \o splitFrom(str, sep, i + 1, <<>>)
  ELSE splitFrom(str, sep, i + 1, Append(part, str[i]))

split(str, sep) == splitFrom(str, sep, 1, <<>>)

\* the day number of the civil date year-month-day (month 1 .. 12, any day):
\* MakeDay of ECMAScript
MakeDay(year, month, day) ==
  LET y   == IF month <= 2 THEN year - 1 ELSE year
      era == y \div 400
      yoe == y - era * 400
      mp  == IF month > 2 THEN month - 3 ELSE month + 9
      doy == (153 * mp + 2) \div 5
      doe == yoe * 365 + yoe \div 4 - yoe \div 100 + doy
  IN era * 146097 + doe - 719468 + (day - 1)

\* the civil date of a day number: YearFromTime and MonthFromTime of ECMAScript
civil(days) ==
  LET z   == days + 719468
      era == z \div 146097
      doe == z - era * 146097
      yoe == (doe - doe \div 1460 + doe \div 36524 - doe \div 146096) \div 365
      doy == doe - (365 * yoe + yoe \div 4 - yoe \div 100)
      mp  == (5 * doy + 2) \div 153
      m   == IF mp < 10 THEN mp + 3 ELSE mp - 9
  IN [year |-> yoe + era * 400 + (IF m <= 2 THEN 1 ELSE 0), month |-> m,
      day |-> doy - (153 * mp + 2) \div 5 + 1]

\* new Date(year, monthIndex, day): the time value of that date's midnight in
\* the host's timezone; NaN if an argument is NaN
DateLocal(year, monthIndex, day, zone) ==
  IF year = NaN \/ monthIndex = NaN - 1 \/ day = NaN THEN NaN
  ELSE LET fullYear == IF year <= 99 THEN 1900 + year ELSE year
           ym == fullYear + monthIndex \div 12
           mn == (monthIndex % 12) + 1
       IN MakeDay(ym, mn, day) * MinutesPerDay - zone

\* new Date(str) of a date-only string, or of one followed by T00:00:00Z: the
\* time value of that date's midnight in UTC
DateParse(str) ==
  LET fields == split(SubSeq(str, 1, IF Len(str) < 10 THEN Len(str) ELSE 10), "-")
  IN IF Len(fields) = 3 /\ \A i \in 1 .. 3 : Number(fields[i]) # NaN
     THEN MakeDay(Number(fields[1]), Number(fields[2]), Number(fields[3])) * MinutesPerDay
     ELSE NaN

MonthNames ==
  <<"January", "February", "March", "April", "May", "June", "July", "August",
    "September", "October", "November", "December">>

\* date.toLocaleDateString('en-US', { year: 'numeric', month: 'long' })
toLocaleDateString(time, zone) ==
  LET date == civil((time + zone) \div MinutesPerDay)
  IN MonthNames[date.month] \o " " \o ToString(date.year)

\* part i of the array that split('-').map(Number) gives (undefined if missing)
field(fields, i) == IF i <= Len(fields) THEN Number(fields[i]) ELSE NaN

\* the helper with every string handed to the Date constructor
formatDate_parseAll(str, zone) ==
  IF str = <<>> THEN "Present"
  ELSE LET date == DateParse(str)
       IN IF date = NaN THEN "Invalid Date" ELSE toLocaleDateString(date, zone)

\* the formatDate helper, in a host whose timezone is `zone`
formatDate(str, zone) ==
  IF str = <<>> THEN "Present"
  ELSE LET date == IF includes(str, <<"T">>)
                   THEN DateParse(str)
                   ELSE LET fields == split(str, "-")
                        IN DateLocal(field(fields, 1), field(fields, 2) - 1, field(fields, 3), zone)
       IN IF date = NaN THEN "Invalid Date" ELSE toLocaleDateString(date, zone)

\* date-only strings of calendar dates
DateOnly ==
  {<<"2", "0", "2", "1", "-", "0", "3", "-", "1", "5">>,
   <<"2", "0", "2", "1", "-", "0", "3", "-", "0", "1">>,
   <<"2", "0", "2", "1", "-", "0", "3", "-", "3", "1">>,
   <<"2", "0", "2", "0", "-", "1", "2", "-", "3", "1">>,
   <<"2", "0", "2", "1", "-", "0", "1", "-", "0", "1">>,
   <<"2", "0", "2", "0", "-", "0", "2", "-", "2", "9">>,
   <<"2", "0", "2", "0", "-", "0", "3", "-", "0", "1">>,
   <<"2", "0", "1", "9", "-", "1", "1", "-", "3", "0">>}

\* the other arguments: none, a month without day, a datetime, no calendar date
OtherDates ==
  {<<>>,
   <<"2", "0", "2", "1", "-", "0", "3">>,
   <<"2", "0", "2", "1", "-", "0", "3", "-", "0", "1", "T", "0", "0", ":", "0", "0", ":", "0", "0", "Z">>,
   <<"2", "0", "2", "1", "-", "0", "2", "-", "3", "1">>}

\* timezones of hosts, from UTC-12:00 to UTC+14:00
Offsets == {-720, -480, -300, -210, -60, 0, 60, 330, 540, 765, 840}

\* the template calls the helper
formatDate_call(str) ==
  /\ dateString' = str
  /\ formatted' = formatDate(str, tz)
  /\ dateString' # dateString \/ formatted' # formatted
  /\ UNCHANGED <<tz, plain, exceptDate>>

\* formatDate of the plain-text generator, in a host whose timezone is `zone`:
\* the Date constructor parses the string, and neither call throws
txtFormatDate(str, zone) ==
  LET date == DateParse(str)
  IN IF date = NaN THEN "Invalid Date" ELSE toLocaleDateString(date, zone)

NoPlain == [dateString |-> <<>>, text |-> ""]

\* the plain-text generator formats a start or end date that is not empty
txtFormatDate_call(str) ==
  /\ str # <<>>
  /\ plain' = [dateString |-> str, text |-> txtFormatDate(str, tz)]
  /\ plain' # plain
  /\ UNCHANGED <<tz, dateString, formatted, exceptDate>>

InitDateIdle ==
  /\ tz = 0
  /\ dateString = <<>>
  /\ formatted = ""
  /\ plain = NoPlain

NextDate ==
  \E str \in DateOnly \cup OtherDates :
    \/ formatDate_call(str)
    \/ txtFormatDate_call(str)

(***************************************************************************)
(* generateHTML and the template, rendered to a sequence of characters (the *)
(* text of a formatted date is kept whole, as one element)                  *)
(***************************************************************************)

\* Handlebars.escapeExpression, which every {{expression}} goes through (the
\* backquote, which it replaces too, is in no value of the model)
RECURSIVE escapeExpression(_)
escapeExpression(str) ==
  IF str = <<>> THEN <<>>
  ELSE (CASE Head(str) = "&" -> <<"&", "a", "m", "p", ";">>
          [] Head(str) = "<" -> <<"&", "l", "t", ";">>
          [] Head(str) = ">" -> <<"&", "g", "t", ";">>
          [] Head(str) = "\"" -> <<"&", "q", "u", "o", "t", ";">>
          [] Head(str) = "'" -> <<"&", "#", "x", "2", "7", ";">>
          [] Head(str) = "=" -> <<"&", "#", "x", "3", "D", ";">>
          [] OTHER -> <<Head(str)>>) \o escapeExpression(Tail(str))

\* a section of the resume data: absent (undefined) or an array of entries
Absent == [present |-> FALSE, items |-> <<>>]
Array(items) == [present |-> TRUE, items |-> items]

\* {{#if value}} with empty arrays taken as JavaScript takes them
isEmpty_truthyArray(value) == ~value.present

\* Handlebars' isEmpty, the test of {{#if value}}: undefined and [] are empty
isEmpty(value) == ~value.present \/ Len(value.items) = 0

\* lines 261-300: title and style sheet (its first conditional rule)
TemplateHead(data) ==
  <<"<", "t", "i", "t", "l", "e", ">">> \o escapeExpression(data.basics.name) \o <<" ", "-", " ", "R", "e", "s", "u", "m", "e", "<", "/", "t", "i", "t", "l", "e", ">", "<", "s", "t", "y", "l", "e", ">", "h", "2", " ", "{">>
  \o (IF ~data.atsMode THEN <<"t", "e", "x", "t", "-", "t", "r", "a", "n", "s", "f", "o", "r", "m", ":", " ", "u", "p", "p", "e", "r", "c", "a", "s", "e", ";">> ELSE <<>>)
  \o <<"}", "<", "/", "s", "t", "y", "l", "e", ">">>

\* lines 366-376: the header
TemplateHeader(data) ==
  <<"<", "h", "1", ">">> \o escapeExpression(data.basics.name) \o <<"<", "/", "h", "1", ">">>

WorkHeading      == <<"<", "h", "2", ">", "W", "o", "r", "k", " ", "E", "x", "p", "e", "r", "i", "e", "n", "c", "e", "<", "/", "h", "2", ">">>
EducationHeading == <<"<", "h", "2", ">", "E", "d", "u", "c", "a", "t", "i", "o", "n", "<", "/", "h", "2", ">">>
ProjectsHeading  == <<"<", "h", "2", ">", "P", "r", "o", "j", "e", "c", "t", "s", "<", "/", "h", "2", ">">>
SkillsHeading    == <<"<", "h", "2", ">", "S", "k", "i", "l", "l", "s", "<", "/", "h", "2", ">">>
SectionOpen      == <<"<", "s", "e", "c", "t", "i", "o", "n", ">">>
SectionClose     == <<"<", "/", "s", "e", "c", "t", "i", "o", "n", ">">>

\* lines 381-398: an entry of work
WorkEntry(entry, zone) ==
  <<"<", "d", "i", "v", " ", "c", "l", "a", "s", "s", "=", "\"", "c", "o", "m", "p", "a", "n", "y", "\"", ">">> \o escapeExpression(entry.name) \o <<"<", "/", "d", "i", "v", ">", "<", "d", "i", "v", ">">>
  \o <<formatDate(entry.startDate, zone)>> \o <<" ", "-", " ">>
  \o <<formatDate(entry.endDate, zone)>> \o <<"<", "/", "d", "i", "v", ">">>

\* lines 407-412: an entry of education
EducationEntry(entry) ==
  <<"<", "d", "i", "v", " ", "c", "l", "a", "s", "s", "=", "\"", "e", "d", "u", "c", "a", "t", "i", "o", "n", "-", "d", "e", "t", "a", "i", "l", "s", "\"", ">">> \o escapeExpression(entry.institution) \o <<"<", "/", "d", "i", "v", ">">>

\* lines 421-432: an entry of projects
ProjectEntry(entry) ==
  <<"<", "h", "3", ">">> \o escapeExpression(entry.name) \o <<"<", "/", "h", "3", ">">>

\* lines 442-444: an entry of skills
SkillEntry(entry) ==
  <<"<", "s", "p", "a", "n", " ", "c", "l", "a", "s", "s", "=", "\"", "s", "k", "i", "l", "l", "-", "n", "a", "m", "e", "\"", ">">> \o escapeExpression(entry.name) \o <<":", "<", "/", "s", "p", "a", "n", ">">>

\* the block inside {{#each}} of the section `section`, for one entry
entryBlock(section, entry, zone) ==
  CASE section = "work"      -> WorkEntry(entry, zone)
    [] section = "education" -> EducationEntry(entry)
    [] section = "projects"  -> ProjectEntry(entry)
    [] section = "skills"    -> SkillEntry(entry)

\* the <h2> of the section `section`
sectionHeading(section) ==
  CASE section = "work"      -> WorkHeading
    [] section = "education" -> EducationHeading
    [] section = "projects"  -> ProjectsHeading
    [] section = "skills"    -> SkillsHeading

\* {{#each items}}: the block of every entry, one after the other
RECURSIVE each(_, _, _, _)
each(section, items, zone, n) ==
  IF n = 0 THEN <<>>
  ELSE each(section, items, zone, n - 1) \o entryBlock(section, items[n], zone)

\* a section block: {{#if value}} heading {{#each value}} ... {{/each}} {{/if}}
Section(section, value, zone) ==
  IF isEmpty(value) THEN <<>>
  ELSE SectionOpen \o sectionHeading(section)
       \o each(section, value.items, zone, Len(value.items)) \o SectionClose

\* the function handlebars.compile makes of the template, applied to
\* templateData in a host whose timezone is `zone`
compiledTemplate(template, data, zone) ==
  TemplateHead(data) \o TemplateHeader(data)
  \o Section("work", data.work, zone)
  \o Section("education", data.education, zone)
  \o Section("projects", data.projects, zone)
  \o Section("skills", data.skills, zone)
  \o <<"<", "/", "b", "o", "d", "y", ">", "<", "/", "h", "t", "m", "l", ">">>

\* generateHTML with a lookup of the template that fails for an unknown name
generateHTML_strict(c, resumeData, options, t, zone) ==
  LET templateName == IF options.template # "" THEN options.template ELSE "ats-optimized"
      r == getTemplate(c, "default", "template", t)
  IN IF templateName \in {"ats-optimized", "professional"}
     THEN [cache |-> r.cache, cached |-> r.cached, template |-> r.template, cacheKey |-> "default",
           threw |-> FALSE,
           html |-> compiledTemplate(r.template,
                      [basics |-> resumeData.basics, work |-> resumeData.work,
                       education |-> resumeData.education, projects |-> resumeData.projects,
                       skills |-> resumeData.skills, atsMode |-> options.atsMode,
                       templateName |-> templateName], zone)]
     ELSE [cache |-> c, cached |-> NoEntry, template |-> NoEntry.template, cacheKey |-> "default",
           threw |-> TRUE, html |-> <<>>]

\* generateHTML(resumeData, options) with the cache c at time t: the cache
\* afterwards, what getTemplate found and returned, and the HTML returned
generateHTML(c, resumeData, options, t, zone) ==
  LET templateSource == "template"
      templateName == IF options.template # "" THEN options.template ELSE "ats-optimized"
      cacheKey == IF templateName = "professional" THEN "professional" ELSE "default"
      r == getTemplate(c, cacheKey, templateSource, t)
      templateData ==
        [basics |-> resumeData.basics, work |-> resumeData.work,
         education |-> resumeData.education, projects |-> resumeData.projects,
         skills |-> resumeData.skills, atsMode |-> options.atsMode,
         templateName |-> templateName]
  IN [cache |-> r.cache, cached |-> r.cached, template |-> r.template, cacheKey |-> cacheKey,
      threw |-> FALSE, html |-> compiledTemplate(r.template, templateData, zone)]

\* options.template: absent (""), a known name, an unknown name
TemplateNames == {"", "professional", "invalid-template-name"}

\* the options of generateHTML (atsMode absent counts as false)
HtmlOptions == [template : TemplateNames, atsMode : BOOLEAN]

\* no call yet
NoHtmlOptions == [template |-> "", atsMode |-> FALSE]

\* the entry of work
WorkEntries ==
  {[name |-> <<"A", "c", "m", "e">>, startDate |-> <<"2", "0", "2", "1", "-", "0", "3", "-", "0", "1">>, endDate |-> <<>>]}

\* the resume data: identity, one entry of work, and each optional section
\* absent, empty or with one entry (the project's name is the text of a heading)
ResumeData ==
  [basics : {[name |-> <<"J", "o">>]},
   work : {Array(<<e>>) : e \in WorkEntries},
   education : {Absent, Array(<<>>), Array(<<[institution |-> <<"M", "I", "T">>]>>)},
   projects : {Absent, Array(<<>>), Array(<<[name |-> SkillsHeading]>>)},
   skills : {Absent, Array(<<>>), Array(<<[name |-> <<"G", "o">>]>>)}]

NoResumeData ==
  [basics |-> [name |-> <<>>], work |-> Absent, education |-> Absent, projects |-> Absent,
   skills |-> Absent]

\* generateHTML(resumeData, options) is called
generateHTML_call(resumeData, options) ==
  /\ calls < MaxRenders
  /\ LET r == generateHTML(cache, resumeData, options, now, tz)
     IN /\ cache' = r.cache
        /\ got' = [key |-> r.cacheKey, at |-> now, cached |-> r.cached, template |-> r.template]
        /\ html' = IF r.threw THEN <<"TemplateError">> ELSE r.html
  /\ calls' = calls + 1
  /\ htmlData' = resumeData
  /\ htmlOptions' = options
  /\ UNCHANGED <<now, ticks, exceptHtml>>

InitHtmlIdle ==
  /\ html = <<>>
  /\ htmlData = NoResumeData
  /\ htmlOptions = NoHtmlOptions

NextHtml ==
  \E resumeData \in ResumeData, options \in HtmlOptions : generateHTML_call(resumeData, options)

(***************************************************************************)
(* watchFile. Timeouts are punctual: a timeout that is due runs before time *)
(* passes and before a listener that is ready in the same millisecond (the  *)
(* timers phase of the event loop precedes its poll phase).                 *)
(***************************************************************************)

\* the default of options.debounceMs
DefaultDebounceMs == 500

\* options.debounceMs: absent (<<>>) or given
DebounceOptions == {<<>>, <<2>>, <<3>>}

NoWatcher == [exists |-> FALSE, closed |-> FALSE, debounceMs |-> DefaultDebounceMs]
NoTimer   == [set |-> FALSE, pending |-> FALSE, due |-> 0]

\* a timeout is due
TimerDue == debounceTimer.pending /\ debounceTimer.due <= now

\* the listener of the watcher delivers events: it was created and not closed
Listening == watcher.exists /\ ~watcher.closed

\* watchFile(filePath, onchange, onError, options) is called
watchFile_call(options) ==
  /\ ~watcher.exists
  /\ watcher' = [exists |-> TRUE, closed |-> FALSE,
                 debounceMs |-> IF options # <<>> THEN options[1] ELSE DefaultDebounceMs]
  /\ debounceTimer' = NoTimer
  /\ UNCHANGED <<lastOutcome, inFlight, onErrorCalls, events, log, now, exceptWatch>>

\* the listener that leaves a pending timeout as it is instead of replacing it
listener_noClear(eventType, timer, debounceMs, t) ==
  IF eventType = "change" /\ ~timer.pending
  THEN [set |-> TRUE, pending |-> TRUE, due |-> t + debounceMs]
  ELSE timer

\* the listener passed to fs.watch, called with eventType at time t:
\* debounceTimer afterwards
listener(eventType, timer, debounceMs, t) ==
  IF eventType = "change"
  THEN [set |-> TRUE, pending |-> TRUE, due |-> t + debounceMs]
  ELSE timer

\* fs.watch reports an event on the file
fs_event(eventType) ==
  /\ Listening
  /\ ~TimerDue
  /\ events < MaxEvents
  /\ debounceTimer' = listener(eventType, debounceTimer, watcher.debounceMs, now)
  /\ events' = events + 1
  /\ log' = Append(log, [what |-> eventType, at |-> now])
  /\ UNCHANGED <<lastOutcome, watcher, inFlight, onErrorCalls, now, exceptWatch>>

\* the timeout runs: onchange() is called and awaited
debounceTimer_fire ==
  /\ TimerDue
  /\ debounceTimer' = [debounceTimer EXCEPT !.pending = FALSE]
  /\ inFlight' = inFlight + 1
  /\ log' = Append(log, [what |-> "onchange", at |-> now])
  /\ UNCHANGED <<lastOutcome, watcher, onErrorCalls, events, now, exceptWatch>>

\* the callback of the timeout without its catch block: onError is not called
timeoutCallback_noCatch(ok, n) == n

\* the callback of the timeout after `await onchange()`, the promise having
\* resolved (ok) or rejected with an Error: the number of onError calls
\* afterwards, n being the number before (onError is given)
timeoutCallback(ok, n) == IF ok THEN n ELSE n + 1

\* a promise of onchange() settles: a rejection is caught, logged and passed to onError
onchange_settled(ok) ==
  /\ inFlight > 0
  /\ inFlight' = inFlight - 1
  /\ onErrorCalls' = timeoutCallback(ok, onErrorCalls)
  /\ lastOutcome' = IF ok THEN "resolved" ELSE "rejected"
  /\ UNCHANGED <<watcher, debounceTimer, events, log, now, exceptWatch>>

\* the watcher emits 'error': the handler logs it and calls onError
watcher_error ==
  /\ Listening
  /\ ~TimerDue
  /\ events < MaxEvents
  /\ events' = events + 1
  /\ onErrorCalls' = onErrorCalls + 1
  /\ UNCHANGED <<lastOutcome, watcher, debounceTimer, inFlight, log, now, exceptWatch>>

\* the close method without its clearTimeout
close_noClear(w, timer) == [watcher |-> [w EXCEPT !.closed = TRUE], debounceTimer |-> timer]

\* the close method the watcher is given: closed is set, a timeout that is
\* pending is cleared, the original close stops the listener
close(w, timer) ==
  [watcher |-> [w EXCEPT !.closed = TRUE], debounceTimer |-> [timer EXCEPT !.pending = FALSE]]

\* watcher.close() is called by the owner of the watcher
watcher_close ==
  /\ Listening
  /\ ~TimerDue
  /\ watcher' = close(watcher, debounceTimer).watcher
  /\ debounceTimer' = close(watcher, debounceTimer).debounceTimer
  /\ log' = Append(log, [what |-> "close", at |-> now])
  /\ UNCHANGED <<lastOutcome, inFlight, onErrorCalls, events, now, exceptWatch>>

\* the process receives SIGINT or SIGTERM: cleanup calls watcher.close() (and
\* process.exit(0) outside of tests, after which nothing runs; the process of
\* a test goes on)
cleanup(signal) ==
  /\ Listening
  /\ ~TimerDue
  /\ watcher' = close(watcher, debounceTimer).watcher
  /\ debounceTimer' = close(watcher, debounceTimer).debounceTimer
  /\ log' = Append(log, [what |-> "close", at |-> now, signal |-> signal])
  /\ UNCHANGED <<lastOutcome, inFlight, onErrorCalls, events, now, exceptWatch>>

\* a millisecond passes
time_passes ==
  /\ watcher.exists
  /\ ~TimerDue
  /\ now < MaxTime
  /\ now' = now + 1
  /\ UNCHANGED <<watchVars, exceptWatch>>

InitWatchIdle ==
  /\ watcher = NoWatcher
  /\ debounceTimer = NoTimer
  /\ inFlight = 0
  /\ onErrorCalls = 0
  /\ events = 0
  /\ log = <<>>
  /\ lastOutcome = "none"

NextWatch ==
  \/ \E options \in DebounceOptions : watchFile_call(options)
  \/ \E eventType \in {"change", "rename"} : fs_event(eventType)
  \/ debounceTimer_fire
  \/ \E ok \in BOOLEAN : onchange_settled(ok)
  \/ watcher_error
  \/ watcher_close
  \/ \E signal \in {"SIGINT", "SIGTERM"} : cleanup(signal)
  \/ time_passes

(***************************************************************************)
(* generateOutputPath, on paths that are sequences of characters            *)
(***************************************************************************)

\* process.cwd()
Cwd == <<"/", "w">>
\* new Date().toISOString().split('T')[0]
Today == <<"2", "0", "2", "6", "-", "1", "1", "-", "0", "1">>
PdfExt == <<".", "p", "d", "f">>

\* str.endsWith(suffix)
endsWith(str, suffix) ==
  Len(str) >= Len(suffix) /\ SubSeq(str, Len(str) - Len(suffix) + 1, Len(str)) = suffix

\* str.lastIndexOf(ch), or 0
lastIndexOf(str, c) ==
  IF \E i \in 1 .. Len(str) : str[i] = c
  THEN CHOOSE i \in 1 .. Len(str) : str[i] = c /\ \A j \in i + 1 .. Len(str) : str[j] # c
  ELSE 0

\* str.trim() (of blanks)
RECURSIVE trim(_)
trim(str) ==
  IF str = <<>> THEN str
  ELSE IF Head(str) = " " THEN trim(Tail(str))
  ELSE IF str[Len(str)] = " " THEN trim(SubSeq(str, 1, Len(str) - 1))
  ELSE str

\* the last portion of a path
lastPortion(pth) == SubSeq(pth, lastIndexOf(pth, "/") + 1, Len(pth))

\* path.extname(pth): from the last dot of the last portion on, unless that
\* portion starts with it or has none
extname(pth) ==
  LET base == lastPortion(pth)
      dot  == lastIndexOf(base, ".")
  IN IF dot <= 1 THEN <<>> ELSE SubSeq(base, dot, Len(base))

\* path.basename(pth, ext)
basename(pth, ext) ==
  LET base == lastPortion(pth)
  IN IF ext # <<>> /\ base # ext /\ endsWith(base, ext)
     THEN SubSeq(base, 1, Len(base) - Len(ext))
     ELSE base

\* path.dirname(pth)
dirname(pth) ==
  LET slash == lastIndexOf(pth, "/")
  IN IF slash = 0 THEN <<".">> ELSE IF slash = 1 THEN <<"/">> ELSE SubSeq(pth, 1, slash - 1)

\* path.resolve(pth), for paths without . and .. segments
resolve(pth) == IF pth # <<>> /\ Head(pth) = "/" THEN pth ELSE Cwd \o <<"/">> \o pth

\* generateAutomaticName(inputPath, template, atsMode); no template is <<>>
generateAutomaticName(inputPath, template, atsMode) ==
  LET baseName == basename(inputPath, extname(inputPath))
      suffix == IF atsMode THEN <<"-", "a", "t", "s">>
                ELSE IF template # <<>> /\ template # <<"a", "t", "s", "-", "o", "p", "t", "i", "m", "i", "z", "e", "d">>
                THEN <<"-">> \o template
                ELSE <<>>
  IN baseName \o suffix \o PdfExt

\* createTimestampedName(filename)
createTimestampedName(filename) ==
  LET ext == extname(filename)
      baseName == basename(filename, ext)
  IN baseName \o <<"-">> \o Today \o ext

\* checkOverwriteProtection(filePath, force), fs.access succeeding on the
\* paths of existing
checkOverwriteProtection(filePath, force, existing) ==
  IF filePath \in existing THEN force ELSE TRUE

\* validateOutputPath(outputPath): the message of the error it throws, or ""
validateOutputPath(outputPath) ==
  IF outputPath = <<>> \/ trim(outputPath) = <<>> THEN "Output path cannot be empty"
  ELSE IF ~endsWith(outputPath, PdfExt) THEN "Output file must have .pdf extension"
  ELSE IF outputPath = <<"/">> \/ outputPath = <<".">> THEN "Invalid output path"
  ELSE ""

\* how a call of generateOutputPath settles
rejectedWith(type, message) ==
  [status |-> "rejected", type |-> type, message |-> message, path |-> <<>>]
resolvedWith(pth) ==
  [status |-> "resolved", type |-> "", message |-> "", path |-> pth]

\* generateOutputPath(options), the files of existing being there; an absent
\* output is <<>>
generateOutputPath(options, existing) ==
  IF options.inputPath = <<>> \/ trim(options.inputPath) = <<>>
  THEN rejectedWith("Error", "Input path cannot be empty")
  ELSE IF options.output # <<>>
  THEN LET outputPath == resolve(options.output)
       IN IF validateOutputPath(outputPath) # ""
          THEN rejectedWith("Error", validateOutputPath(outputPath))
          ELSE IF ~checkOverwriteProtection(outputPath, options.force, existing)
          THEN rejectedWith("FileSystemError", "File already exists. Use --force to overwrite")
          ELSE resolvedWith(outputPath)
  ELSE LET automatic == generateAutomaticName(options.inputPath, options.template, options.atsMode)
           named == IF options.timestamp THEN createTimestampedName(automatic) ELSE automatic
       IN resolvedWith(resolve(named))

\* OutputPathOptions values
OutputPathOptions ==
  [inputPath : {<<>>, <<"r", "e", "s", "u", "m", "e", ".", "j", "s", "o", "n">>, <<"i", "n", "/", "c", "v", ".", "j", "s", "o", "n">>},
   output : {<<>>, <<"o", "u", "t", "/", "c", "v", ".", "p", "d", "f">>, <<"/", "w", "/", "r", "e", "s", "u", "m", "e", ".", "p", "d", "f">>, <<"c", "v", ".", "t", "x", "t">>},
   template : {<<>>, <<"m", "o", "d", "e", "r", "n">>},
   atsMode : BOOLEAN, timestamp : BOOLEAN, force : BOOLEAN]

\* the files that may come to exist: artifacts of earlier runs
Artifacts ==
  {<<"/", "w", "/", "r", "e", "s", "u", "m", "e", ".", "p", "d", "f">>, <<"/", "w", "/", "o", "u", "t", "/", "c", "v", ".", "p", "d", "f">>, <<"/", "w", "/", "c", "v", "-", "a", "t", "s", ".", "p", "d", "f">>, <<"/", "w", "/", "r", "e", "s", "u", "m", "e", "-", "m", "o", "d", "e", "r", "n", "-", "2", "0", "2", "6", "-", "1", "1", "-", "0", "1", ".", "p", "d", "f">>}

NoOutPath ==
  [options |-> [inputPath |-> <<>>, output |-> <<>>, template |-> <<>>, atsMode |-> FALSE,
                timestamp |-> FALSE, force |-> FALSE],
   result |-> [status |-> "none", type |-> "", message |-> "", path |-> <<>>]]

\* generateOutputPath(options) is called and settles (fs.mkdir, which makes
\* directories only, is taken to succeed)
generateOutputPath_call(options) ==
  /\ outPath' = [options |-> options, result |-> generateOutputPath(options, files)]
  /\ outPath' # outPath
  /\ UNCHANGED <<files, exceptPath>>

\* a file is written: the artifact of an earlier run
fs_writeFile(pth) ==
  /\ pth \notin files
  /\ files' = files \cup {pth}
  /\ UNCHANGED <<outPath, exceptPath>>

InitPathIdle ==
  /\ files = {}
  /\ outPath = NoOutPath

NextPath ==
  \/ \E options \in OutputPathOptions : generateOutputPath_call(options)
  \/ \E pth \in Artifacts : fs_writeFile(pth)

(***************************************************************************)
(* applyUpdates. A JSON value is a record of its type t and its content v:  *)
(* the characters of a string, the properties of an object (a function of   *)
(* the keys), the elements of an array.                                     *)
(***************************************************************************)

String(chars) == [t |-> "string", v |-> chars]
Object(properties) == [t |-> "object", v |-> properties]
ArrayOf(elements) == [t |-> "array", v |-> elements]
Undefined == [t |-> "undefined", v |-> <<>>]
Null == [t |-> "null", v |-> <<>>]

\* value == null
isNullish(value) == value.t \in {"undefined", "null"}

\* the string of a sequence of characters, to serve as a property key
RECURSIVE toKey(_)
toKey(chars) == IF chars = <<>> THEN "" ELSE Head(chars) \o toKey(Tail(chars))

\* a segment of a path: a property name or an array index
Name(chars) == [isIndex |-> FALSE, key |-> toKey(chars), index |-> 0]
Index(n) == [isIndex |-> TRUE, key |-> "", index |-> n]

\* JSON.parse(JSON.stringify(value)): properties that are undefined are left
\* out, elements that are undefined become null
RECURSIVE clone(_)
clone(value) ==
  CASE value.t = "object" ->
         Object([k \in {x \in DOMAIN value.v : value.v[x].t # "undefined"} |-> clone(value.v[k])])
    [] value.t = "array" ->
         ArrayOf([i \in 1 .. Len(value.v) |->
                    IF value.v[i].t = "undefined" THEN Null ELSE clone(value.v[i])])
    [] OTHER -> value

\* the content of a file that is no JSON text
InvalidJson == [valid |-> FALSE, indent |-> 0, value |-> Undefined]

\* JSON.stringify(value, null, indent): the text, known by its indentation and
\* by the value it parses to
stringify(value, indent) == [valid |-> TRUE, indent |-> indent, value |-> clone(value)]

\* part.match(/^([^[]+)\[(\d+)\]$/): the position of the bracket, or 0
arrayMatch(part) ==
  LET open == indexOf(part, "[", 1)
  IN IF /\ open > 1
        /\ Len(part) >= open + 2
        /\ part[Len(part)] = "]"
        /\ Number(SubSeq(part, open + 1, Len(part) - 1)) # NaN
     THEN open ELSE 0

\* the segments of the parts from the n-th on
RECURSIVE segmentsOf(_, _)
segmentsOf(parts, n) ==
  IF n > Len(parts) THEN <<>>
  ELSE LET part == parts[n]
           open == arrayMatch(part)
       IN (IF open # 0
           THEN <<Name(SubSeq(part, 1, open - 1)),
                  Index(Number(SubSeq(part, open + 1, Len(part) - 1)))>>
           ELSE <<Name(part)>>)
          \o segmentsOf(parts, n + 1)

\* parseDotNotation(path)
parseDotNotation(path) == segmentsOf(split(path, "."), 1)

\* current[segment]
getProperty(current, segment) ==
  CASE current.t = "object" /\ ~segment.isIndex ->
         IF segment.key \in DOMAIN current.v THEN current.v[segment.key] ELSE Undefined
    [] current.t = "array" /\ segment.isIndex ->
         IF segment.index < Len(current.v) THEN current.v[segment.index + 1] ELSE Undefined
    [] OTHER -> Undefined

\* current[segment] = value, for an object and a name or an array and an index
\* (an index past the end leaves holes; a name set on an array is no element)
setProperty(current, segment, value) ==
  CASE current.t = "object" /\ ~segment.isIndex ->
         Object([k \in DOMAIN current.v \cup {segment.key} |->
                   IF k = segment.key THEN value ELSE current.v[k]])
    [] current.t = "array" /\ segment.isIndex ->
         ArrayOf([i \in 1 .. (IF segment.index < Len(current.v) THEN Len(current.v)
                                                                 ELSE segment.index + 1) |->
                    IF i = segment.index + 1 THEN value
                    ELSE IF i <= Len(current.v) THEN current.v[i] ELSE Undefined])
    [] OTHER -> current

\* the root properties setNestedValue creates
RootProperties ==
  {"basics", "work", "education", "skills", "projects", "awards", "certifications",
   "publications", "languages", "interests", "references"}

\* an exception is thrown; a value is returned
Thrown == [threw |-> TRUE, value |-> Undefined]
Returned(value) == [threw |-> FALSE, value |-> value]

\* while (current.length <= finalSegment) current.push({})
pushEmpty(current, finalSegment) ==
  ArrayOf([i \in 1 .. (IF Len(current.v) <= finalSegment THEN finalSegment + 1 ELSE Len(current.v)) |->
             IF i <= Len(current.v) THEN current.v[i] ELSE Object(<<>>)])

\* setNestedValue(obj, path, value) from the i-th segment on, obj being
\* `current`: what `current` is afterwards, or the exception (of the test of
\* the root property, or of an assignment to a property of a string, which
\* throws in a module)
RECURSIVE setNestedValue(_, _, _, _)
setNestedValue(current, path, i, value) ==
  LET segment == path[i]
  IN IF i = Len(path)
     THEN IF current.t \notin {"object", "array"} THEN Thrown
          ELSE IF segment.isIndex /\ current.t = "array"
          THEN Returned(setProperty(pushEmpty(current, segment.index), segment, String(value)))
          ELSE Returned(setProperty(current, segment, String(value)))
     ELSE LET found == getProperty(current, segment)
              next == IF ~isNullish(found) THEN found
                      ELSE IF path[i + 1].isIndex THEN ArrayOf(<<>>) ELSE Object(<<>>)
              inner == setNestedValue(next, path, i + 1, value)
          IN IF isNullish(found) /\ i = 1 /\ segment.key \notin RootProperties THEN Thrown
             ELSE IF isNullish(found) /\ current.t \notin {"object", "array"} THEN Thrown
             ELSE IF inner.threw THEN Thrown
             ELSE Returned(setProperty(current, segment, inner.value))

\* updateField(data, fieldPath, value)
updateField(data, fieldPath, value) ==
  setNestedValue(clone(data), parseDotNotation(fieldPath), 1, value)

\* addWorkExperience(data, workEntry)
addWorkExperience(data, workEntry) ==
  LET clonedData == clone(data)
      work == getProperty(clonedData, Name(<<"w", "o", "r", "k">>))
      array == IF isNullish(work) \/ (work.t = "string" /\ work.v = <<>>) THEN ArrayOf(<<>>) ELSE work
  IN IF array.t # "array" THEN Thrown
     ELSE Returned(setProperty(clonedData, Name(<<"w", "o", "r", "k">>), ArrayOf(<<workEntry>> \o array.v)))

\* parseSetOperation(setString): path and value, or the exception
parseSetOperation(setString) ==
  LET equalsIndex == indexOf(setString, "=", 1)
  IN IF equalsIndex = 0
     THEN [threw |-> TRUE, path |-> <<>>, value |-> <<>>]
     ELSE [threw |-> FALSE, path |-> SubSeq(setString, 1, equalsIndex - 1),
           value |-> SubSeq(setString, equalsIndex + 1, Len(setString))]

\* format "email" of the schema, for addresses of letters, digits, dots and
\* one @: a local part, and a domain of at least two labels, none empty
isEmail(str) ==
  LET at == indexOf(str, "@", 1)
      labels == split(SubSeq(str, at + 1, Len(str)), ".")
  IN /\ at > 1
     /\ indexOf(str, "@", at + 1) = 0
     /\ Len(labels) >= 2
     /\ \A i \in 1 .. Len(labels) : labels[i] # <<>>

\* format "date" of the schema: YYYY-MM-DD with a month and a day of it
isDate(str) ==
  LET parts == split(str, "-")
  IN /\ Len(str) = 10
     /\ Len(parts) = 3
     /\ Len(parts[1]) = 4 /\ Len(parts[2]) = 2 /\ Len(parts[3]) = 2
     /\ \A i \in 1 .. 3 : Number(parts[i]) # NaN
     /\ Number(parts[2]) \in 1 .. 12
     /\ Number(parts[3]) \in 1 .. 31

\* a property the schema requires to be a string of minLength least, and
\* (format "email", "date") of a format
hasString(object, key, least, format) ==
  /\ key \in DOMAIN object.v
  /\ object.v[key].t = "string"
  /\ Len(object.v[key].v) >= least
  /\ format = "email" => isEmail(object.v[key].v)
  /\ format = "date" => isDate(object.v[key].v)

\* validateResumeData that accepts every document
validateResumeData_lenient(data) == TRUE

\* validateResumeData(data) does not throw: the schema's rules for basics and
\* for the items of work
validateResumeData(data) ==
  /\ data.t = "object"
  /\ {"basics", "work"} \subseteq DOMAIN data.v
  /\ data.v["basics"].t = "object"
  /\ hasString(data.v["basics"], "name", 1, "")
  /\ hasString(data.v["basics"], "email", 0, "email")
  /\ data.v["work"].t = "array"
  /\ \A i \in 1 .. Len(data.v["work"].v) :
       LET item == data.v["work"].v[i]
       IN /\ item.t = "object"
          /\ hasString(item, "name", 1, "")
          /\ hasString(item, "position", 1, "")
          /\ hasString(item, "startDate", 0, "date")

\* the set operations applied one after the other, from the n-th on
RECURSIVE applySet(_, _, _)
applySet(updatedData, setOperations, n) ==
  IF n > Len(setOperations) THEN [failed |-> "none", data |-> updatedData]
  ELSE LET op == parseSetOperation(setOperations[n])
           r == updateField(updatedData, op.path, op.value)
       IN IF op.threw THEN [failed |-> "parseSetOperation", data |-> updatedData]
          ELSE IF r.threw THEN [failed |-> "updateField", data |-> updatedData]
          ELSE applySet(r.value, setOperations, n + 1)

\* applyUpdates from `let updatedData = data` to the call of fs.writeFile:
\* what failed, and the text to write
updatedJson(data, options) ==
  LET afterSet == applySet(data, options.set, 1)
      afterAdd == IF afterSet.failed # "none" \/ options.addWork = <<>>
                  THEN Returned(afterSet.data)
                  ELSE addWorkExperience(afterSet.data, options.addWork[1])
  IN IF afterSet.failed # "none" THEN [failed |-> afterSet.failed, text |-> InvalidJson]
     ELSE IF afterAdd.threw THEN [failed |-> "addWorkExperience", text |-> InvalidJson]
     ELSE IF ~validateResumeData(afterAdd.value)
     THEN [failed |-> "validateResumeData", text |-> InvalidJson]
     ELSE [failed |-> "none", text |-> stringify(afterAdd.value, 2)]

\* ---- the inputs

\* a work entry
WorkEntryOf(name, position, startDate) ==
  Object([name |-> String(name), position |-> String(position), startDate |-> String(startDate)])

\* the resume the file holds at first
ResumeDocument ==
  Object([basics |-> Object([name |-> String(<<"A", "l">>), email |-> String(<<"a", "@", "b", ".", "i", "o">>)]),
          work |-> ArrayOf(<<WorkEntryOf(<<"C", "o">>, <<"D", "e", "v">>, <<"2", "0", "2", "0", "-", "0", "1", "-", "0", "1">>)>>)])

\* --set arguments: two that are valid, two that fail validation (an empty
\* name, an entry without position), two that updateField throws on (an
\* unknown root, a property of a string), one that is no set operation
SetOperations ==
  {<<"b", "a", "s", "i", "c", "s", ".", "n", "a", "m", "e", "=", "J", "o">>,
   <<"w", "o", "r", "k", "[", "0", "]", ".", "s", "t", "a", "r", "t", "D", "a", "t", "e", "=", "2", "0", "2", "1", "-", "0", "1", "-", "0", "1">>,
   <<"b", "a", "s", "i", "c", "s", ".", "n", "a", "m", "e", "=">>,
   <<"w", "o", "r", "k", "[", "1", "]", ".", "n", "a", "m", "e", "=", "C", "o">>,
   <<"x", ".", "y", "=", "v">>,
   <<"b", "a", "s", "i", "c", "s", ".", "n", "a", "m", "e", ".", "f", "i", "r", "s", "t", "=", "J">>,
   <<"b", "a", "s", "i", "c", "s">>}

\* UpdateOptions: set (a string is the array of it, <<>> is none), addWork
\* (<<>> is none), noBackup
UpdateOptions ==
  [set : {<<>>} \cup {<<a>> : a \in SetOperations}
           \cup {<<a, b>> : a \in SetOperations, b \in SetOperations},
   addWork : {<<>>, <<WorkEntryOf(<<"N", "e", "w">>, <<"D", "e", "v">>, <<"2", "0", "2", "1", "-", "0", "1", "-", "0", "1">>)>>, <<WorkEntryOf(<<"N", "e", "w">>, <<>>, <<"2", "0", "2", "1", "-", "0", "1", "-", "0", "1">>)>>},
   noBackup : BOOLEAN]

\* no call
NoUpdate ==
  [pc |-> "idle", options |-> [set |-> <<>>, addWork |-> <<>>, noBackup |-> FALSE],
   fileContent |-> InvalidJson, data |-> Undefined, updatedJson |-> InvalidJson,
   failed |-> "none", result |-> "none"]

\* applyUpdates rejects, `what` having thrown
rejectUpdate(r, what) == [r EXCEPT !.pc = "settled", !.failed = what, !.result = "rejected"]

\* applyUpdates after the backup, for the task record r: the updates and the
\* validation, then the call of fs.writeFile
afterBackup(r) ==
  LET u == updatedJson(r.data, r.options)
  IN IF u.failed # "none" THEN rejectUpdate(r, u.failed)
     ELSE [r EXCEPT !.pc = "writeFile", !.updatedJson = u.text]

\* applyUpdates(filePath, options) is called: fs.readFile is awaited
applyUpdates_call(options) ==
  /\ upd.pc \in {"idle", "settled"}
  /\ updates < MaxUpdates
  /\ updates' = updates + 1
  /\ upd' = [NoUpdate EXCEPT !.pc = "readFile", !.options = options]
  /\ UNCHANGED <<resumeFile, backupFile, exceptUpdate>>

\* fs.readFile resolves: JSON.parse throws, or fs.copyFile is awaited, or
\* (noBackup) the updates follow at once
readFile_done ==
  /\ upd.pc = "readFile"
  /\ LET r == [upd EXCEPT !.fileContent = resumeFile, !.data = resumeFile.value]
     IN upd' = IF ~resumeFile.valid THEN rejectUpdate(r, "JSON.parse")
               ELSE IF ~upd.options.noBackup THEN [r EXCEPT !.pc = "createBackup"]
               ELSE afterBackup(r)
  /\ UNCHANGED <<resumeFile, backupFile, updates, exceptUpdate>>

\* fs.copyFile of createBackup settles
createBackup_done(ok) ==
  /\ upd.pc = "createBackup"
  /\ IF ok
     THEN /\ backupFile' = <<resumeFile>>
          /\ upd' = afterBackup(upd)
     ELSE /\ upd' = rejectUpdate(upd, "createBackup")
          /\ UNCHANGED backupFile
  /\ UNCHANGED <<resumeFile, updates, exceptUpdate>>

\* fs.writeFile resolves: the file holds updatedJson, applyUpdates resolves
writeFile_done ==
  /\ upd.pc = "writeFile"
  /\ resumeFile' = upd.updatedJson
  /\ upd' = [upd EXCEPT !.pc = "settled", !.result = "resolved"]
  /\ UNCHANGED <<backupFile, updates, exceptUpdate>>

\* the resume file as it is before the first call: the resume, as an editor
\* or this program wrote it
InitUpdateIdle ==
  /\ resumeFile = stringify(ResumeDocument, 2)
  /\ backupFile = <<>>
  /\ upd = NoUpdate
  /\ updates = 0

NextUpdate ==
  \/ \E options \in UpdateOptions : applyUpdates_call(options)
  \/ readFile_done
  \/ \E ok \in BOOLEAN : createBackup_done(ok)
  \/ writeFile_done

InitPool ==
  /\ browser = 0
  /\ context = 0
  /\ isShuttingDown = FALSE
  /\ idleTimer = "null"
  /\ procs = [b \in BrowserIds |-> "unborn"]
  /\ ctxs = [k \in ContextIds |-> [browser |-> 0, st |-> "unborn"]]
  /\ call = [c \in Callers |-> IdleCall]
  /\ sd = [s \in Invokers |-> IdleShutdown]
  /\ settled = NothingSettled

InitRouteIdle ==
  /\ request = NoRequest
  /\ decision = <<>>

InitPdfIdle ==
  /\ pdfFile = <<>>
  /\ pdfTwin = <<>>
  /\ pdfConfig = DEFAULT_DETERMINISTIC_CONFIG
  /\ pdfPasses = 0
  /\ pdfContent = <<>>
  /\ pdfOptions = NoOptions

\* the singletons of the other modules, as they are once the modules are loaded
InitAppIdle ==
  InitGenIdle /\ InitCacheIdle /\ InitDateIdle /\ InitHtmlIdle /\ InitWatchIdle /\ InitPathIdle
  /\ InitUpdateIdle

Init == InitPool /\ InitRouteIdle /\ InitPdfIdle /\ InitAppIdle

Next ==
  \/ \E c \in Callers : generatePDF_call(c)
  \/ \E c \in Callers : createBrowser_done(c)
  \/ \E c \in Callers : createContext_done(c)
  \/ \E c \in Callers : newPage_done(c)
  \/ \E c \in Callers : setContent_done(c)
  \/ \E c \in Callers : releasePage_done(c)
  \/ \E s \in Invokers : shutdown_call(s)
  \/ idleTimer_fire
  \/ \E s \in Invokers : contextClose_done(s)
  \/ \E s \in Invokers : browserClose_done(s)
  \/ \E b \in BrowserIds : browser_killed(b)

Spec == Init /\ [][Next]_vars

\* the specification of the route handler alone
InitRoute ==
  /\ InitPool
  /\ InitPdfIdle
  /\ InitAppIdle
  /\ request \in [resourceType : ResourceTypes, url : Urls]
  /\ decision = <<>>

NextRoute ==
  \/ \E t \in ResourceTypes, u \in Urls : page_request(t, u)
  \/ route_handle

SpecRoute == InitRoute /\ [][NextRoute]_vars

\* the specification of the normalizer alone: any artifact and twin, any config
InitPdf ==
  /\ InitPool
  /\ InitRouteIdle
  /\ InitAppIdle
  /\ \E layout \in [1 .. MaxParts -> Parts] :
       /\ pdfFile = join(layout, 1, MaxParts)
       /\ pdfTwin = join(layout, 2, MaxParts)
       /\ pdfContent = contentOf(layout, MaxParts)
  /\ pdfConfig \in Configs
  /\ pdfPasses = 0
  /\ pdfOptions = NoOptions

NextPdf == normalize

SpecPdf == InitPdf /\ [][NextPdf]_vars

\* the specification of the end of generatePDF: any exported artifact (pdfTwin
\* keeps a copy of it), any options
InitExport ==
  /\ InitPool
  /\ InitRouteIdle
  /\ InitAppIdle
  /\ \E layout \in [1 .. MaxParts -> {p \in Parts : p[1] = p[2]}] :
       /\ pdfFile = join(layout, 1, MaxParts)
       /\ pdfTwin = join(layout, 2, MaxParts)
       /\ pdfContent = contentOf(layout, MaxParts)
  /\ pdfConfig = DEFAULT_DETERMINISTIC_CONFIG
  /\ pdfPasses = 0
  /\ pdfOptions \in PDFOptions

NextExport == generatePDF_return

SpecExport == InitExport /\ [][NextExport]_vars

\* the specification of the formatDate helper: a host in any timezone
InitDate ==
  /\ InitPool
  /\ InitRouteIdle
  /\ InitPdfIdle
  /\ InitGenIdle
  /\ InitCacheIdle
  /\ InitHtmlIdle
  /\ InitWatchIdle
  /\ InitPathIdle
  /\ InitUpdateIdle
  /\ tz \in Offsets
  /\ dateString = <<>>
  /\ formatted = ""
  /\ plain = NoPlain

SpecDate == InitDate /\ [][NextDate]_vars

\* the specification of generateHTML
SpecHtml == Init /\ [][NextHtml]_vars

\* the specification of the file watcher
SpecWatch == Init /\ [][NextWatch]_vars

\* the specification of generateOutputPath
SpecPath == Init /\ [][NextPath]_vars

\* the specification of the template cache
SpecCache == Init /\ [][NextCache]_vars

\* the specification of the template cache from the time on when it is full
InitWhenFull ==
  /\ InitPool /\ InitRouteIdle /\ InitPdfIdle
  /\ InitGenIdle /\ InitDateIdle /\ InitHtmlIdle /\ InitWatchIdle /\ InitPathIdle
  /\ InitUpdateIdle
  /\ InitFull

SpecFull == InitWhenFull /\ [][NextFull]_vars

\* the specification of applyUpdates: one call after the other; the file
\* the first call finds holds the resume or is no JSON text
InitUpdate ==
  /\ InitPool /\ InitRouteIdle /\ InitPdfIdle
  /\ InitGenIdle /\ InitCacheIdle /\ InitDateIdle /\ InitHtmlIdle /\ InitWatchIdle /\ InitPathIdle
  /\ resumeFile \in {stringify(ResumeDocument, 0), stringify(ResumeDocument, 2), InvalidJson}
  /\ backupFile = <<>>
  /\ upd = NoUpdate
  /\ updates = 0

SpecUpdate == InitUpdate /\ [][NextUpdate]_vars

\* the specification of one generatePDF call after the other
SpecGenerate == Init /\ [][NextGenerate]_vars

(***************************************************************************)
(* Properties of the pool                                                  *)
(***************************************************************************)

\* a page has been issued to c and not yet been passed to releasePage
HoldsPage(c) == call[c].pc = "setContent"

\* c is inside getBrowserPage
Acquiring(c) == call[c].pc \in {"createBrowser", "createContext", "newPage"}

LiveProcs == {b \in BrowserIds : procs[b] \in {"launching", "running"}}
LiveCtxs  == {k \in ContextIds : ctxs[k].st \in {"creating", "open"}}

\* C1: at most one renderer process and at most one context are live or being
\* created at any time, and each live one is the one the pool references.
C1_SingleProcessAndContext ==
  /\ Cardinality(LiveProcs) <= 1
  /\ Cardinality(LiveCtxs) <= 1
  /\ \A b \in BrowserIds : procs[b] = "running" => browser = b
  /\ \A k \in ContextIds : ctxs[k].st = "open" => context = k

\* C2: an acquisition that found the process dead recreates the process and then
\* the context: once its launch has resolved it goes on to create a context.
C2_DeadProcessRecreated ==
  [][\A c \in Callers :
       (call[c].pc = "createBrowser" /\ call[c].foundDead /\ call'[c].pc # "createBrowser")
         => call'[c].pc = "createContext"]_vars

\* C3: the shutdown started by the idle timer never runs while a caller holds a
\* page it has not yet passed to releasePage.
C3_NoIdleTeardownWhileHeld ==
  sd["timer"].pc # "idle" => \A c \in Callers : ~HoldsPage(c)

\* C4: a call of getBrowserPage made while the flag is set rejects at once with
\* the shutting-down error and leaves processes, contexts, pages, the pool's
\* fields and the idle timer as they are.
C4_FailsFastWhileShuttingDown ==
  [][\A c \in Callers :
       (isShuttingDown /\ call[c].pc = "idle" /\ (call'[c] # call[c] \/ settled'.task = c))
         => /\ settled' = [task |-> c, acq |-> "Browser pool is shutting down",
                           rel |-> "none", result |-> "PDFGenerationError"]
            /\ call'[c] = IdleCall
            /\ UNCHANGED <<browser, context, isShuttingDown, idleTimer, procs, ctxs>>]_vars

\* C4 witness: a call has just been rejected while a teardown is still running
C4_Witness ==
  /\ isShuttingDown
  /\ settled.task \in Callers
  /\ settled.acq = "Browser pool is shutting down"
  /\ \E s \in Invokers : sd[s].pc # "idle"

\* C5: while the flag is set no acquisition moves on: none gets its process
\* launched, its context created, its page opened or its handle returned.
C5_NoAcquisitionDuringShutdown ==
  [][isShuttingDown =>
       \A c \in Callers : (Acquiring(c)' \/ HoldsPage(c)') => call'[c].pc = call[c].pc]_vars

\* C6: no shutdown() call rejects, at most one teardown runs at a time, and a
\* teardown never closes the process before the context.
C6_ShutdownIdempotent ==
  /\ Cardinality({s \in Invokers : sd[s].pc # "idle"}) <= 1
  /\ settled.task \in Invokers => settled.result = "resolved"
  /\ \A s \in Invokers :
       sd[s].closes \in {<<>>, <<"context">>, <<"browser">>, <<"context", "browser">>}

\* C6 witness: a shutdown() call has returned while the teardown of another one,
\* having closed the context, is closing the process
C6_Witness ==
  \E s \in Invokers :
    /\ sd[s].pc = "browserClose"
    /\ sd[s].closes = <<"context", "browser">>
    /\ settled.task \in Invokers \ {s}
    /\ settled.result = "resolved"

\* C7: releasePage never rejects, and a generatePDF call whose try block returned
\* the output path resolves with it whatever happened in releasePage.
C7_ReleaseNeverFails ==
  [][\A c \in Callers :
       (call[c].pc = "releasePage" /\ call'[c].pc = "idle")
         => /\ settled'.task = c
            /\ settled'.rel \in {"released", "swallowed"}
            /\ call[c].pend = "path" => settled'.result = "path"]_vars

\* C7 witness: generatePDF has returned the path although releasing the page failed
C7_Witness ==
  /\ settled.task \in Callers
  /\ settled.rel = "swallowed"
  /\ settled.result = "path"

(***************************************************************************)
(* Properties of the route handler                                         *)
(***************************************************************************)

\* the URL begins with one of the schemes of local or embedded data
LocalOrigin(url) ==
  \E scheme \in {FileScheme, DataScheme, BlobScheme} :
    \E n \in 0 .. Len(url) : SubSeq(url, 1, n) = scheme

\* C8: the handler takes exactly one decision on an intercepted request: continue
\* if the resource type is document, stylesheet or font and the URL starts with
\* file://, data: or blob:, and abort in every other case.
C8_RouteDecision ==
  decision # <<>> =>
    /\ Len(decision) = 1
    /\ IF request.resourceType \in {"document", "stylesheet", "font"} /\ LocalOrigin(request.url)
       THEN decision[1] = "continue"
       ELSE decision[1] \in {"abort internetdisconnected", "abort blockedbyclient"}

\* C8 witness: a font from a remote origin has been aborted
C8_Witness ==
  /\ request.resourceType = "font"
  /\ startsWith(request.url, <<"h", "t", "t", "p">>)
  /\ decision = <<"abort internetdisconnected">>

(***************************************************************************)
(* Properties of the normalizer                                            *)
(***************************************************************************)

\* C9: two artifacts that differ only in the values of their creation-date,
\* modification-date, ID, producer and creator fields are equal byte for byte
\* once normalized with the default configuration.
C9_TwinsNormalizeEqual ==
  (pdfConfig = DEFAULT_DETERMINISTIC_CONFIG /\ pdfPasses >= 1) => pdfFile = pdfTwin

\* C10: a pass of ensureDeterministicPDF over an artifact that has already been
\* normalized with the same configuration leaves every byte as it is.
C10_NormalizeIdempotent ==
  [][(pdfPasses >= 1 /\ pdfPasses' = pdfPasses + 1) => pdfFile' = pdfFile]_vars


\* every occurrence of key in str opens a field whose value is the constant name
constantName(str, key) ==
  \A i \in 1 .. Len(str) - Len(key) + 1 :
    SubSeq(str, i, i + Len(key) - 1) = key
      => /\ i + Len(key) + Len(GeneratorName) <= Len(str)
         /\ SubSeq(str, i, i + Len(key) + Len(GeneratorName)) = key \o GeneratorName \o <<")">>

dateAfterTitle(str, date) ==
  includes(str, TitleField \o <<"\n">> \o Field(CreationDateKey, date, ")"))

\* C12: when the configuration has a fixedCreationDate and the artifact a title
\* field, the artifact after a run of ensureDeterministicPDF holds a creation
\* date field of that value immediately after the title field, whatever the
\* values of removeTimestamps and removeVariableMetadata.
C12_FixedDateAfterTitle ==
  (pdfPasses = 1 /\ pdfConfig.fixedCreationDate # <<>> /\ includes(pdfFile, TitleField))
    => dateAfterTitle(pdfFile, pdfConfig.fixedCreationDate)

\* a is b with some elements left out: from a[i] and b[j] on
RECURSIVE isSubsequenceFrom(_, _, _, _)
isSubsequenceFrom(a, i, b, j) ==
  IF i > Len(a) THEN TRUE
  ELSE IF j > Len(b) THEN FALSE
  ELSE IF a[i] = b[j] THEN isSubsequenceFrom(a, i + 1, b, j + 1)
  ELSE isSubsequenceFrom(a, i, b, j + 1)

\* C13: a run of ensureDeterministicPDF changes metadata fields only: the bytes
\* of the content that is not metadata, stream data that holds the text of a
\* field included, are all still in the artifact, in their order.
C13_ContentPreserved ==
  pdfPasses >= 1 => isSubsequenceFrom(pdfContent, 1, pdfFile, 1)

(***************************************************************************)
(* Properties of generatePDF                                               *)
(***************************************************************************)

\* C14: a generatePDF call that passed validation and failed rejects with a
\* FileSystemError if the error caught has code ENOENT or EACCES, and else with
\* a PDFGenerationError whose message ends with the message of the error
\* caught; it rejects with nothing else.
C14_TypedErrors ==
  (gen.pc = "settled" /\ gen.result = "rejected" /\ gen.thrown.type # "ValidationError")
    => /\ gen.error # NoError
       /\ gen.thrown.type \in {"FileSystemError", "PDFGenerationError"}
       /\ gen.thrown.type = "FileSystemError" <=> gen.error.code \in {"ENOENT", "EACCES"}
       /\ gen.thrown.type = "PDFGenerationError"
            => gen.thrown.message = "Failed to generate PDF: " \o gen.error.message

\* C14 witness: normalization failed with a missing path while a page was held,
\* and the call has rejected with a FileSystemError after releasing the page
C14_Witness ==
  /\ gen.pc = "settled"
  /\ gen.result = "rejected"
  /\ gen.error.code = "ENOENT"
  /\ gen.thrown.type = "FileSystemError"
  /\ gen.deterministic
  /\ gen.page

(***************************************************************************)
(* Properties of the template cache                                        *)
(***************************************************************************)

\* C15: getTemplate never returns the template of an entry it found whose age,
\* now minus compiledAt, has reached CACHE_TTL: it returns a template compiled
\* during the call and leaves it in the cache, whatever the lastUsed and
\* useCount of the entry found.
C15_NoExpiredTemplate ==
  got.key # "" =>
    /\ got.template = got.cached.template => got.at - got.cached.compiledAt < CACHE_TTL
    /\ (got.cached # NoEntry /\ got.at - got.cached.compiledAt >= CACHE_TTL)
         => /\ got.template.born = got.at
            /\ \A i \in 1 .. Len(cache) :
                 cache[i].key = got.key => cache[i].template = got.template

\* C15 witness: a call found an entry that was used again one millisecond
\* before, whose age had reached the TTL, and returned a new template
C15_Witness ==
  /\ got.key # ""
  /\ got.cached.useCount >= 2
  /\ got.cached.lastUsed = got.at - 1
  /\ got.at - got.cached.compiledAt >= CACHE_TTL
  /\ got.template.born = got.at

(***************************************************************************)
(* Properties of the formatDate helper                                     *)
(***************************************************************************)

\* C17: in a host of any timezone the helper renders a date-only string
\* YYYY-MM-DD as the long name of the month MM followed by the year YYYY: never
\* as the month before or the month after.
C17_SameCalendarMonth ==
  dateString \in DateOnly
    => formatted = MonthNames[Number(SubSeq(dateString, 6, 7))] \o " "
                     \o ToString(Number(SubSeq(dateString, 1, 4)))

\* C17 witness: the first day of a month has been rendered in a host west of
\* Greenwich, where that day's UTC midnight is still in the month before
C17_Witness ==
  /\ tz < 0
  /\ dateString = <<"2", "0", "2", "1", "-", "0", "3", "-", "0", "1">>
  /\ formatted = "March 2021"

\* C30: when the plain-text export and the HTML export have formatted the same
\* date-only string YYYY-MM-DD in the same host, whatever its timezone, they
\* show the same month and the same year.
C30_SameMonthInBothExports ==
  (dateString \in DateOnly /\ plain.dateString = dateString)
    => plain.text = formatted

(***************************************************************************)
(* Properties of generateHTML                                              *)
(***************************************************************************)

C18_HeadingIffSection ==
  calls > 0
    => /\ includes(html, EducationHeading) <=> (htmlData.education.present /\ htmlData.education.items # <<>>)
       /\ includes(html, ProjectsHeading) <=> (htmlData.projects.present /\ htmlData.projects.items # <<>>)
       /\ includes(html, SkillsHeading) <=> (htmlData.skills.present /\ htmlData.skills.items # <<>>)

\* C18 witness: a document whose education is an empty array and whose skills
\* are absent, with a project named like the skills heading, has been rendered
\* with the heading of its projects and of its work only
C18_Witness ==
  /\ htmlData.education = Array(<<>>)
  /\ htmlData.skills = Absent
  /\ htmlData.projects = Array(<<[name |-> SkillsHeading]>>)
  /\ includes(html, ProjectsHeading)
  /\ includes(html, WorkHeading)
  /\ ~includes(html, EducationHeading)
  /\ ~includes(html, SkillsHeading)

(***************************************************************************)
(* Properties of the file watcher                                          *)
(***************************************************************************)

\* the positions of the log at which `what` happened
Positions(what) == {i \in 1 .. Len(log) : log[i].what = what}

\* the change event at position i is the last of its burst: no change event
\* follows it within less than debounceMs
LastOfBurst(i) ==
  \A j \in Positions("change") : j > i => log[j].at - log[i].at >= watcher.debounceMs

\* the calls of onchange that follow position i before the next change event
CallsAfter(i) ==
  {k \in Positions("onchange") :
     k > i /\ \A j \in Positions("change") : j > i => k < j}

\* C19: of a burst of change events, each less than debounceMs after the one
\* before, the last is followed by exactly one call of onchange, debounceMs
\* after it, and no event of the burst is followed by a call any earlier (the
\* watcher staying open).
C19_OneCallPerBurst ==
  \A i \in Positions("change") :
    /\ \A k \in CallsAfter(i) : log[k].at = log[i].at + watcher.debounceMs
    /\ Cardinality(CallsAfter(i)) <= 1
    /\ ~LastOfBurst(i) => CallsAfter(i) = {}
    /\ ( /\ LastOfBurst(i)
         /\ \A c \in Positions("close") : c < i
         /\ \/ now > log[i].at + watcher.debounceMs
            \/ (now = log[i].at + watcher.debounceMs /\ ~TimerDue) )
         => Cardinality(CallsAfter(i)) = 1

\* C19 witness: a burst of three change events, one millisecond apart, has
\* been followed by one call of onchange, three milliseconds after its last
C19_Witness ==
  /\ watcher.debounceMs = 3
  /\ Len(log) = 4
  /\ \A i \in 1 .. 3 : log[i] = [what |-> "change", at |-> i]
  /\ log[4] = [what |-> "onchange", at |-> 6]

(***************************************************************************)
(* Properties of generateOutputPath                                        *)
(***************************************************************************)

\* C20: a call of generateOutputPath resolves with the path of a file that
\* exists only if force is true, whether the path was given or derived from
\* the input path; and it rejects with 'File already exists. Use --force to
\* overwrite' only if force is false and the file of the given path exists.
C20_NoOverwriteWithoutForce ==
  [][outPath' # outPath =>
       /\ (outPath'.result.status = "resolved" /\ outPath'.result.path \in files)
            => outPath'.options.force
       /\ outPath'.result.message = "File already exists. Use --force to overwrite"
            => (~outPath'.options.force /\ resolve(outPath'.options.output) \in files)]_vars

(***************************************************************************)
(* Properties of the lease of a page                                       *)
(***************************************************************************)

\* C21: in a generatePDF call releasePage is called exactly once when
\* getBrowserPage returned a page, whether the call then succeeds or
\* setContent, pdf or ensureDeterministicPDF fails, never before the try block
\* has ended, and never when getBrowserPage (or a step before it) failed.
C21_ReleasedExactlyOnce ==
  /\ gen.pc \in {"mkdir", "generateHTML", "getBrowserPage", "setContent", "pdf",
                 "ensureDeterministicPDF"} => gen.releases = 0
  /\ gen.pc \in {"releasePage", "settled"} => gen.releases = (IF gen.page THEN 1 ELSE 0)
  /\ gen.pc = "releasePage" => gen.page

\* C21 witness: a call that held a page has failed after the acquisition and
\* has settled, the page released once
C21_Witness ==
  /\ gen.pc = "settled"
  /\ gen.page
  /\ gen.error # NoError
  /\ gen.result = "rejected"
  /\ gen.releases = 1

(***************************************************************************)
(* Properties of the eviction of the template cache                         *)
(***************************************************************************)

\* the keys of the Map c
keysOf(c) == {c[i].key : i \in 1 .. Len(c)}

\* the entry is expired at time t
expired(e, t) == (t - e.compiledAt) >= CACHE_TTL

\* C22: after every getTemplate call the cache holds at most MAX_CACHE_SIZE
\* entries and the entry of the call; a call that does not take the cache over
\* the bound removes nothing; a call that does removes every expired entry and,
\* only if none is expired, one entry whose lastUsed no entry that stays
\* undercuts; the entry just compiled stays.
C22_BoundedLRU ==
  [][calls' = calls + 1 =>
       LET key == got'.key
           over == Len(cache) = MAX_CACHE_SIZE /\ key \notin keysOf(cache)
           gone == {i \in 1 .. Len(cache) : cache[i].key \notin keysOf(cache')}
           old == {i \in 1 .. Len(cache) : expired(cache[i], now)}
       IN /\ Len(cache') <= MAX_CACHE_SIZE
          /\ \E j \in 1 .. Len(cache') :
               /\ cache'[j].key = key
               /\ cache'[j].template = got'.template
               /\ got'.template.born = now => cache'[j].compiledAt = now
          /\ ~over => gone = {}
          /\ over /\ old # {} => gone = old
          /\ over /\ old = {} =>
               /\ Cardinality(gone) = 1
               /\ \A i \in gone : \A j \in 1 .. Len(cache') :
                    cache[i].lastUsed <= cache'[j].lastUsed]_vars

\* C22 witness: a call with a new key on the full cache, no entry expired, has
\* evicted one entry and kept its own
C22_Witness ==
  /\ got.key \in Keys
  /\ got.cached = NoEntry
  /\ got.at < CACHE_TTL
  /\ Len(cache) = MAX_CACHE_SIZE
  /\ got.key \in keysOf(cache)
  /\ Cardinality(keysOf(cache) \cap {FullKeys[i] : i \in 1 .. MAX_CACHE_SIZE}) = MAX_CACHE_SIZE - 1

\* the other case of eviction: a call with a new key on the full cache has
\* removed the expired entries, which leaves the cache below its bound
ExpiredEvicted ==
  /\ got.key \in Keys
  /\ got.cached = NoEntry
  /\ got.at >= CACHE_TTL
  /\ Len(cache) < MAX_CACHE_SIZE

(***************************************************************************)
(* Properties of the pool after a shutdown                                  *)
(***************************************************************************)

\* a getBrowserPage call made now and left alone resolves: the flag is not
\* set, and the context it calls newPage on is a new one (ensureBrowser makes
\* one when this.context is null) or one that is open in a running process
acquireSucceeds ==
  /\ ~isShuttingDown
  /\ context = 0 \/ Usable(context)

\* C23: when a teardown of shutdown() has completed the flag is reset and the
\* pool is usable again: the next getBrowserPage call, left alone, succeeds.
C23_UsableAfterShutdown ==
  [][\A s \in Invokers :
       (sd[s].pc # "idle" /\ sd'[s].pc = "idle") => acquireSucceeds']_vars

(***************************************************************************)
(* Properties of the file watcher after a failed regeneration               *)
(***************************************************************************)

\* C24: when a promise of onchange() rejects, onError is called once and the
\* watcher, its closed field and a timeout that is pending are left as they
\* are; whatever happened before, a change event the listener receives sets
\* the timeout, and the timeout, when it runs, calls onchange().
C24_RejectionDoesNotStop ==
  [][/\ (inFlight' = inFlight - 1 /\ lastOutcome' = "rejected")
          => /\ onErrorCalls' = onErrorCalls + 1
             /\ watcher' = watcher
             /\ debounceTimer' = debounceTimer
     /\ (inFlight' = inFlight - 1 /\ lastOutcome' = "resolved") => onErrorCalls' = onErrorCalls
     /\ (Len(log') > Len(log) /\ log'[Len(log')].what = "change")
          => debounceTimer'.pending /\ debounceTimer'.due = now + watcher.debounceMs
     /\ (debounceTimer.pending /\ ~debounceTimer'.pending /\ watcher' = watcher)
          => inFlight' = inFlight + 1]_vars

\* C24 witness: a regeneration has failed, its error has been passed to
\* onError, the watcher is open, and the timeout of a change is pending
C24_Witness ==
  /\ lastOutcome = "rejected"
  /\ onErrorCalls = 1
  /\ inFlight = 0
  /\ Listening
  /\ debounceTimer.pending
  /\ Cardinality(Positions("onchange")) = 1

(***************************************************************************)
(* Properties of the file watcher after close                               *)
(***************************************************************************)

\* C25: a call of watcher.close(), direct or by the handler of SIGINT and
\* SIGTERM, sets closed and leaves no timeout pending; once closed is set it
\* stays set, no timeout is set and no call of onchange starts.
C25_NothingStartsAfterClose ==
  [][/\ (Len(log') > Len(log) /\ log'[Len(log')].what = "close")
          => watcher'.closed /\ ~debounceTimer'.pending
     /\ (watcher.exists /\ watcher.closed)
          => /\ watcher'.closed
             /\ ~debounceTimer'.pending
             /\ inFlight' <= inFlight
             /\ log' = log]_vars

\* C25 witness: the handler of a signal has closed the watcher while the
\* timeout of a change event was pending, the time at which the timeout was
\* due has passed, and onchange has not been called
C25_Witness ==
  /\ watcher.closed
  /\ Len(log) >= 2
  /\ log[Len(log)].what = "close"
  /\ "signal" \in DOMAIN log[Len(log)]
  /\ log[Len(log) - 1].what = "change"
  /\ log[Len(log)].at < log[Len(log) - 1].at + watcher.debounceMs
  /\ now > log[Len(log) - 1].at + watcher.debounceMs
  /\ Positions("onchange") = {}

(***************************************************************************)
(* Properties of applyUpdates                                               *)
(***************************************************************************)

\* the text is that of a resume with a name and, in every entry of work, a
\* position
wellFormed(text) ==
  /\ text.valid
  /\ getProperty(getProperty(text.value, Name(<<"b", "a", "s", "i", "c", "s">>)),
                 Name(<<"n", "a", "m", "e">>)).v # <<>>
  /\ LET work == getProperty(text.value, Name(<<"w", "o", "r", "k">>))
     IN \A i \in 1 .. Len(work.v) :
          ~isNullish(getProperty(work.v[i], Name(<<"p", "o", "s", "i", "t", "i", "o", "n">>)))
          /\ getProperty(work.v[i], Name(<<"p", "o", "s", "i", "t", "i", "o", "n">>)).v # <<>>

\* C26: the resume file changes only in the last step of a call, when every
\* update has been applied and the result has passed validation: what is
\* written is that result, a well-formed resume; a call that rejects, be it in
\* parsing a set operation, in applying it or in validation, leaves the file
\* with the content it read.
C26_WriteOnlyAfterValidation ==
  [][/\ resumeFile' # resumeFile
          => /\ upd.pc = "writeFile"
             /\ upd'.result = "resolved"
             /\ resumeFile' = updatedJson(upd.data, upd.options).text
             /\ wellFormed(resumeFile')
     /\ (upd'.pc = "settled" /\ upd.pc # "settled" /\ upd'.result = "rejected")
          => /\ resumeFile' = resumeFile
             /\ upd.pc # "readFile" => resumeFile' = upd.fileContent]_vars

\* C26 witness: a call whose first set operation is valid has been rejected by
\* the validation of the result of its second, and the file, a backup of which
\* exists, is as it was read
C26_Witness ==
  /\ upd.pc = "settled"
  /\ upd.result = "rejected"
  /\ upd.failed = "validateResumeData"
  /\ Len(upd.options.set) = 2
  /\ ~parseSetOperation(upd.options.set[1]).threw
  /\ updatedJson(upd.data, [upd.options EXCEPT !.set = <<upd.options.set[1]>>, !.addWork = <<>>]).failed = "none"
  /\ backupFile # <<>>
  /\ resumeFile = upd.fileContent

(***************************************************************************)
(* Properties of the context the pool holds                                 *)
(***************************************************************************)

\* C27: when getBrowserPage calls context.newPage(), the context is open, it
\* was created from the process the pool holds, and that process is connected.
C27_PageFromLiveContext ==
  [][\A c \in Callers :
       (call[c].pc # "newPage" /\ call'[c].pc = "newPage")
         => /\ browser' # 0
            /\ ctxs'[call'[c].obj].browser = browser'
            /\ ctxs'[call'[c].obj].st = "open"
            /\ procs'[ctxs'[call'[c].obj].browser] = "running"]_vars

\* C28: when a shutdown() call resolves, the context and the process the pool
\* holds, if it still holds any, are closed.
C28_ClosedWhenShutdownResolves ==
  [][(settled'.task \in Invokers /\ settled'.result = "resolved")
       => /\ context' # 0 => ctxs'[context'].st # "open"
          /\ browser' # 0 => procs'[browser'] # "running"]_vars

(***************************************************************************)
(* Properties of the regenerations the file watcher starts                  *)
(***************************************************************************)

\* C29: at most one promise of onchange() is unsettled at any time.
C29_OneRegenerationInFlight == inFlight <= 1
====
